---- MODULE Spec2Model ----
(***************************************************************************)
(* A model of ygrep-core: the workspace walker, the inverted-index writer, *)
(* the vector index, the BM25 searcher and the hybrid (RRF) searcher.      *)
(*                                                                         *)
(* Strings are sequences of one-character strings, so that the string      *)
(* operations of the code (starts_with, ends_with, contains, split,        *)
(* to_lowercase, lines) are computed and not looked up.                    *)
(***************************************************************************)
EXTENDS Integers, Sequences, FiniteSets, Bags, TLC

\* ------------------------------------------------------------------------
\* Strings
\* ------------------------------------------------------------------------

NL == "\n"

\* a byte that is not valid UTF-8 (read_to_string fails on it)
BAD == "\\xFF"

Rep(s, n) == [i \in 1..n |-> s]

StartsWith(s, p) ==
    /\ Len(p) <= Len(s)
    /\ SubSeq(s, 1, Len(p)) = p

EndsWith(s, p) ==
    /\ Len(p) <= Len(s)
    /\ SubSeq(s, Len(s) - Len(p) + 1, Len(s)) = p

Contains(s, p) ==
    \E i \in 0..(Len(s) - Len(p)) : SubSeq(s, i + 1, i + Len(p)) = p

RECURSIVE Join(_, _)
Join(parts, sep) ==
    IF Len(parts) = 0 THEN <<>>
    ELSE IF Len(parts) = 1 THEN parts[1]
    ELSE parts[1] \o sep \o Join(Tail(parts), sep)

\* char::to_lowercase on the letters the model uses
LowerChar(c) ==
    CASE c = "F" -> "f"
      [] c = "O" -> "o"
      [] c = "B" -> "b"
      [] OTHER -> c

ToLower(s) == [i \in 1..Len(s) |-> LowerChar(s[i])]

IsAlphanumeric(c) ==
    c \in {"a", "b", "c", "f", "h", "l", "m", "o", "p", "r", "s", "t", "w",
           "x", "z", "F", "O", "B", "0", "1", "2", "3", "4", "5", "6", "7"}

IsWhitespace(c) == c \in {" ", NL}

\* query.split(|c| !c.is_alphanumeric() && c != '_').filter(|s| !s.is_empty())
RECURSIVE SplitTerms(_, _, _)
SplitTerms(s, i, cur) ==
    IF i > Len(s) THEN (IF cur = <<>> THEN <<>> ELSE <<cur>>)
    ELSE IF ~IsAlphanumeric(s[i]) /\ s[i] # "_"
         THEN (IF cur = <<>> THEN <<>> ELSE <<cur>>) \o SplitTerms(s, i + 1, <<>>)
         ELSE SplitTerms(s, i + 1, Append(cur, s[i]))

\* str::split_whitespace
RECURSIVE SplitWs(_, _, _)
SplitWs(s, i, cur) ==
    IF i > Len(s) THEN (IF cur = <<>> THEN <<>> ELSE <<cur>>)
    ELSE IF IsWhitespace(s[i])
         THEN (IF cur = <<>> THEN <<>> ELSE <<cur>>) \o SplitWs(s, i + 1, <<>>)
         ELSE SplitWs(s, i + 1, Append(cur, s[i]))

SplitWhitespace(s) == SplitWs(s, 1, <<>>)

\* str::lines(): split on "\n"; a final line ending is not a line of its own
\* (the text between two line ends is split at the "\n" nearest to its middle)
RECURSIVE LinesIn(_, _, _)
LinesIn(s, lo, hi) ==
    IF lo > hi THEN <<>>
    ELSE LET inner == {i \in lo..(hi - 1) : s[i] = NL}
         IN IF inner = {}
            THEN <<SubSeq(s, lo, IF s[hi] = NL THEN hi - 1 ELSE hi)>>
            ELSE LET mid == (lo + hi) \div 2
                     left == {i \in inner : i <= mid}
                     m == IF left # {} THEN CHOOSE i \in left : \A j \in left : j <= i
                          ELSE CHOOSE i \in inner : \A j \in inner : i <= j
                 IN LinesIn(s, lo, m) \o LinesIn(s, m + 1, hi)

Lines(s) == LinesIn(s, 1, Len(s))

Min(a, b) == IF a <= b THEN a ELSE b
Max(a, b) == IF a >= b THEN a ELSE b

SeqToSet(s) == {s[i] : i \in 1..Len(s)}

\* ------------------------------------------------------------------------
\* The file tree: workspace roots, paths and file contents of the model
\* ------------------------------------------------------------------------

\* canonical workspace roots: /w, /.w (a hidden directory name, as the
\* tempfile crate's .tmpXXXX directories) and /tmp/w (under a directory that
\* the default ignore pattern **/tmp/** names)
RootPlain == <<"/", "w">>
RootHidden == <<"/", ".", "w">>
RootUnderTmp == <<"/", "t", "m", "p", "/", "w">>
Roots == {RootPlain, RootHidden, RootUnderTmp}

\* workspace-relative paths of the files the model can hold
PathA == <<"a", ".", "r", "s">>
PathB == <<"s", "/", "b", ".", "r", "s">>
PathHidden == <<".", "h", ".", "r", "s">>
RelPaths == {PathA, PathB, PathHidden}

\* file contents
ContentFoo == <<"F", "o", "o", " ", "b", "a", "r">>
ContentLate ==
    Join(Rep(<<"a", "a", "a", "a">>, 10) \o << <<"f", "o", "o">> >>, <<NL>>)
ContentBar ==
    Join(<< <<"b", "a", "r">> >> \o Rep(Rep("z", 15), 3), <<NL>>)
ContentFive ==
    Join(<< <<"f", "o", "o">>, <<"b">>, <<"c">>, <<"b">>, <<"b", "a", "r">> >>, <<NL>>)
ContentBig == Rep("x", 80)
ContentBad == <<"x", BAD>>
Contents == {ContentFoo, ContentFive, ContentLate, ContentBar, ContentBig, ContentBad}

\* queries
QueryFoo == <<"f", "o", "o">>
QueryFooUpper == <<"F", "O", "O">>
QueryRegex == <<".", "*", "f", "o", "o", ".", "*">>
QueryBarFoo == <<"b", "a", "r", " ", "f", "o", "o">>
QueryBar == <<"b", "a", "r">>
QueryEmpty == <<>>
QuerySpace == <<" ">>
QueryPunct == <<".", "*">>
Queries ==
    {QueryFoo, QueryFooUpper, QueryRegex, QueryBarFoo, QueryBar, QueryEmpty,
     QuerySpace, QueryPunct}

\* ------------------------------------------------------------------------
\* Configuration (config.rs); the values are the model's, small enough to
\* make the cases happen
\* ------------------------------------------------------------------------

\* indexer.max_file_size
MaxFileSize == 70
\* indexer.chunk_size, indexer.chunk_overlap
ChunkSize == 3
ChunkOverlap == 1
\* search.default_limit, search.max_limit
DefaultLimit == 1
MaxLimit == 2
\* the limits a caller may ask for: None, or Some(1..MaxRequest)
MaxRequest == 3
NoLimit == 0
\* search.bm25_weight, search.vector_weight, in tenths (0.0, 0.5, 1.0)
Weights == {0, 5}
\* indexer.ignore_patterns: **/tmp/**, **/*.log and Cargo.lock of the default list
IgnorePatterns ==
    { <<"*", "*", "/", "t", "m", "p", "/", "*", "*">>,
      <<"*", "*", "/", "*", ".", "l", "o", "g">>,
      <<"C", "a", "r", "g", "o", ".", "l", "o", "c", "k">> }
\* indexer.include_extensions (empty = all text files)
IncludeExtensions == {}
\* indexer.follow_symlinks
FollowSymlinks == TRUE
\* the symbolic links of a tree that has none
NoLinks == << >>

\* ------------------------------------------------------------------------
\* Paths (std::path)
\* ------------------------------------------------------------------------

RECURSIVE SplitSlash(_, _, _)
SplitSlash(s, i, cur) ==
    IF i > Len(s) THEN (IF cur = <<>> THEN <<>> ELSE <<cur>>)
    ELSE IF s[i] = "/"
         THEN (IF cur = <<>> THEN <<>> ELSE <<cur>>) \o SplitSlash(s, i + 1, <<>>)
         ELSE SplitSlash(s, i + 1, Append(cur, s[i]))

\* Path::components, without the root component
Components(path) == SplitSlash(path, 1, <<>>)

\* Path::file_name
FileName(path) ==
    LET cs == Components(path) IN IF cs = <<>> THEN <<>> ELSE cs[Len(cs)]

\* the position of the last "." of a name, 0 if none
LastDot(name) ==
    LET dots == {i \in 1..Len(name) : name[i] = "."}
    IN IF dots = {} THEN 0 ELSE CHOOSE i \in dots : \A j \in dots : j <= i

\* Path::extension: the part of the file name after its last ".", none if the
\* name has no "." or only a leading one; <<>> stands for None
Extension(path) ==
    LET name == FileName(path)
        d == LastDot(name)
    IN IF d <= 1 THEN <<>> ELSE SubSeq(name, d + 1, Len(name))

\* Path::join
PathJoin(dir, rel) == dir \o <<"/">> \o rel

\* Path::strip_prefix(base).unwrap_or(path), as a string
StripPrefix(path, base) ==
    IF StartsWith(path, base \o <<"/">>)
    THEN SubSeq(path, Len(base) + 2, Len(path))
    ELSE path

\* ------------------------------------------------------------------------
\* fs/walker.rs
\* ------------------------------------------------------------------------

\* is_hidden, on the entry's file name
is_hidden(file_name) == StartsWith(file_name, <<".">>)

\* the directory names filter_entry prunes, those the model can spell
PrunedDirNames ==
    { <<"t", "m", "p">>, <<"l", "o", "g">>, <<"c", "a", "c", "h", "e">>,
      <<"v", "a", "r">> }

\* the closure given to filter_entry
filter_entry(file_name, is_dir) ==
    IF is_hidden(file_name) THEN FALSE
    ELSE IF is_dir /\ file_name \in PrunedDirNames THEN FALSE
    ELSE TRUE

glob_match(pattern, path) ==
    LET star3 == <<"*", "*", "/">>
        slash3 == <<"/", "*", "*">>
    IN
    IF StartsWith(pattern, star3) /\ EndsWith(pattern, slash3)
    THEN LET dir_name == SubSeq(pattern, 4, Len(pattern) - 3)
         IN \/ Contains(path, <<"/">> \o dir_name \o <<"/">>)
            \/ StartsWith(path, dir_name \o <<"/">>)
            \/ EndsWith(path, <<"/">> \o dir_name)
    ELSE IF StartsWith(pattern, <<"*", "*", "/", "*", ".">>)
    THEN LET ext == SubSeq(pattern, 6, Len(pattern))
         IN EndsWith(path, <<".">> \o ext)
    ELSE IF StartsWith(pattern, star3)
    THEN LET suffix == SubSeq(pattern, 4, Len(pattern))
         IN EndsWith(path, suffix) \/ EndsWith(path, <<"/">> \o suffix)
    ELSE IF EndsWith(pattern, slash3)
    THEN LET prefix == SubSeq(pattern, 1, Len(pattern) - 3)
         IN StartsWith(path, prefix) \/ Contains(path, <<"/">> \o prefix)
    ELSE IF StartsWith(pattern, <<"*", ".">>)
    THEN LET ext == SubSeq(pattern, 3, Len(pattern))
         IN EndsWith(path, <<".">> \o ext)
    ELSE \/ path = pattern
         \/ EndsWith(path, <<"/">> \o pattern)
         \/ Contains(path, <<"/">> \o pattern \o <<"/">>)

matches_ignore_pattern(path) ==
    \E pattern \in IgnorePatterns : glob_match(pattern, path)

TEXT_EXTENSIONS == { <<"r", "s">>, <<"t", "x", "t">>, <<"m", "d">> }
TEXT_FILENAMES == { <<"r", "e", "a", "d", "m", "e">> }
BinaryCheckLen == 8192

\* is_text_file: by extension, by file name, else no NUL byte in the first 8 KiB
is_text_file(path, bytes) ==
    IF Extension(path) # <<>> /\ ToLower(Extension(path)) \in TEXT_EXTENSIONS THEN TRUE
    ELSE IF ToLower(FileName(path)) \in TEXT_FILENAMES THEN TRUE
    ELSE LET check_len == Min(Len(bytes), BinaryCheckLen)
         IN \A i \in 1..check_len : bytes[i] # "\\0"

is_indexable(path, bytes) ==
    IF IncludeExtensions # {}
       /\ (Extension(path) = <<>> \/ ToLower(Extension(path)) \notin IncludeExtensions)
    THEN FALSE
    ELSE is_text_file(path, bytes)

\* ------------------------------------------------------------------------
\* State
\* ------------------------------------------------------------------------

VARIABLES
    root,         \* Workspace.root, the canonical workspace directory
    files,        \* the regular files under root: relative path -> bytes
    index,        \* the committed documents of the inverted index (a bag)
    writer,       \* an open Indexer: << >> if none, else <<its uncommitted bag>>
    vectors,      \* VectorIndex.vectors of the open workspace
    hnsw,         \* VectorIndex.hnsw: the set of (id, vector) points of the graph
    vectorsJson,  \* <index dir>/vectors/vectors.json: << >> if absent, else
                  \* <<VectorData>>, the dimension and the stored vectors
    dimension,    \* VectorIndex.dimension
    resolver,     \* a SymlinkResolver: follow_symlinks and visited_canonical
    ret,          \* what the last call returned
    model,        \* EmbeddingModel.model, the RwLock and the Option it guards
    cache,        \* EmbeddingCache.cache: the entries, least recently used first
    indexes,      \* <data dir>/ygrep/indexes: directory name -> its workspace.json
    existing,     \* the workspace directories that exist on the filesystem
    threads       \* the position and the locals of each thread inside a call

\* the state of the embedding model, the embedding cache, the registry of
\* indexes and the threads
others == <<model, cache, indexes, existing, threads>>

vars == <<root, files, index, writer, vectors, hnsw, vectorsJson, dimension, resolver, ret,
          model, cache, indexes, existing, threads>>

\* the threads that share the workspace's objects
NumThreads == 2

Threads == 1..NumThreads

\* a thread outside any call
ThreadIdle == [at |-> "idle", op |-> "none", got |-> << >>, via |-> "none"]

\* ------------------------------------------------------------------------
\* index/writer.rs
\* ------------------------------------------------------------------------

\* xxh3_64 of the file contents; the hash function is outside the repository,
\* the model gives it one distinct value per content
xxh3_64(content) ==
    CASE content = ContentFoo -> 1
      [] content = ContentLate -> 2
      [] content = ContentBar -> 3
      [] content = ContentBig -> 4
      [] content = ContentFive -> 5
      [] OTHER -> 6

Digit(n) ==
    CASE n = 0 -> "0" [] n = 1 -> "1" [] n = 2 -> "2" [] n = 3 -> "3"
      [] n = 4 -> "4" [] n = 5 -> "5" [] n = 6 -> "6" [] n = 7 -> "7"
      [] n = 8 -> "8" [] OTHER -> "9"

\* format!("{}", n)
Decimal(n) == IF n < 10 THEN <<Digit(n)>> ELSE <<Digit(n \div 10), Digit(n % 10)>>

\* format!("{:016x}", hash), for the hash values of the model (below 10)
Hex16(hash) == Rep("0", 15) \o <<Digit(hash)>>

\* std::fs::read_to_string: fails on a missing file and on invalid UTF-8
ReadOk(fs, rel) == rel \in DOMAIN fs /\ \A i \in 1..Len(fs[rel]) : fs[rel][i] # BAD

Doc(doc_id, path, content, size, extension, line_start, line_end, chunk_id, parent_doc) ==
    [doc_id |-> doc_id, path |-> path, content |-> content, size |-> size,
     extension |-> extension, line_start |-> line_start, line_end |-> line_end,
     chunk_id |-> chunk_id, parent_doc |-> parent_doc]

\* IndexWriter::delete_term followed by the commit that applies it: every
\* document added before the call whose field holds exactly the term goes
DeleteTerm(docs, field, term) ==
    LET keep == {d \in BagToSet(docs) : d[field] # term}
    IN [d \in keep |-> docs[d]]

\* IndexWriter::add_document
AddDocument(docs, d) == docs (+) SetToBag({d})

\* Indexer::delete_by_id
delete_by_id(docs, doc_id) == DeleteTerm(docs, "doc_id", doc_id)

\* a delete_by_path that builds its term on the doc_id field
delete_by_path_on_doc_id(docs, path) == DeleteTerm(docs, "doc_id", path)

\* a delete_by_path that leaves the chunk documents of the path
delete_by_path_whole_only(docs, path) ==
    LET keep == {d \in BagToSet(docs) : ~(d.path = path /\ d.chunk_id = <<>>)}
    IN [d \in keep |-> docs[d]]

\* Indexer::delete_by_path
delete_by_path(docs, path) == DeleteTerm(docs, "path", path)

\* the loop of index_chunks with start += chunk_size + overlap (mutant)
RECURSIVE ChunksFrom_step_over(_, _, _, _, _, _, _)
ChunksFrom_step_over(lines, chunk_size, chunk_overlap, parent_doc_id, path, start, chunk_num) ==
    IF start >= Len(lines) THEN <<>>
    ELSE LET end == Min(start + chunk_size, Len(lines))
             chunk_content == Join(SubSeq(lines, start + 1, end), <<NL>>)
             chunk_id == parent_doc_id \o <<":">> \o Decimal(chunk_num)
         IN <<Doc(chunk_id, path, chunk_content, Len(chunk_content), <<>>,
                  start + 1, end, chunk_id, parent_doc_id)>>
            \o ChunksFrom_step_over(lines, chunk_size, chunk_overlap, parent_doc_id, path,
                                    start + (chunk_size + chunk_overlap), chunk_num + 1)

\* the loop of Indexer::index_chunks: the chunk documents from line `start`
\* (counted from 0) on, in order
RECURSIVE ChunksFrom(_, _, _, _, _, _, _)
ChunksFrom(lines, chunk_size, chunk_overlap, parent_doc_id, path, start, chunk_num) ==
    IF start >= Len(lines) THEN <<>>
    ELSE LET end == Min(start + chunk_size, Len(lines))
             chunk_content == Join(SubSeq(lines, start + 1, end), <<NL>>)
             chunk_id == parent_doc_id \o <<":">> \o Decimal(chunk_num)
         IN <<Doc(chunk_id, path, chunk_content, Len(chunk_content), <<>>,
                  start + 1, end, chunk_id, parent_doc_id)>>
            \o ChunksFrom(lines, chunk_size, chunk_overlap, parent_doc_id, path,
                          start + (chunk_size - chunk_overlap), chunk_num + 1)

\* index_chunks that chunks a file of exactly chunk_size lines too (mutant)
index_chunks_with_strict(chunk_size, chunk_overlap, content, parent_doc_id, path) ==
    LET lines == Lines(content)
    IN IF Len(lines) < chunk_size THEN <<>>
       ELSE ChunksFrom(lines, chunk_size, chunk_overlap, parent_doc_id, path, 0, 0)

\* Indexer::index_chunks under a configuration: the chunk documents of a
\* file, in order
index_chunks_with(chunk_size, chunk_overlap, content, parent_doc_id, path) ==
    LET lines == Lines(content)
    IN IF Len(lines) <= chunk_size THEN <<>>
       ELSE ChunksFrom(lines, chunk_size, chunk_overlap, parent_doc_id, path, 0, 0)

\* Indexer::index_chunks under the configuration of the workspace
index_chunks(content, parent_doc_id, path) ==
    index_chunks_with(ChunkSize, ChunkOverlap, content, parent_doc_id, path)

RECURSIVE AddAll(_, _)
AddAll(docs, ds) ==
    IF ds = <<>> THEN docs ELSE AddAll(AddDocument(docs, ds[1]), Tail(ds))

\* an index_file that deletes the documents of the path before it reads
\* the file (mutant)
index_file_deletes_first(docs, fs, ws_root, path) ==
    LET rel == StripPrefix(path, ws_root)
        deleted == delete_by_path(docs, rel)
    IN
    IF ~ReadOk(fs, rel) THEN [res |-> "Io", doc_id |-> <<>>, docs |-> deleted]
    ELSE
    LET content == fs[rel]
        size == Len(content)
    IN
    IF size > MaxFileSize THEN [res |-> "FileTooLarge", doc_id |-> <<>>, docs |-> deleted]
    ELSE
    LET doc_id == Hex16(xxh3_64(content))
        line_count == Len(Lines(content))
        doc == Doc(doc_id, rel, content, size, Extension(path), 1, line_count,
                   <<>>, <<>>)
        added == AddDocument(deleted, doc)
    IN [res |-> "Ok", doc_id |-> doc_id,
        docs |-> AddAll(added, index_chunks(content, doc_id, rel))]

\* Indexer::index_file(path) on the writer's documents `docs`: the result
\* ("Ok", "FileTooLarge" or "Io"), the doc_id and the documents afterwards
index_file(docs, fs, ws_root, path) ==
    LET rel == StripPrefix(path, ws_root) IN
    IF ~ReadOk(fs, rel) THEN [res |-> "Io", doc_id |-> <<>>, docs |-> docs]
    ELSE
    LET content == fs[rel]
        size == Len(content)
    IN
    IF size > MaxFileSize THEN [res |-> "FileTooLarge", doc_id |-> <<>>, docs |-> docs]
    ELSE
    LET doc_id == Hex16(xxh3_64(content))
        rel_path == StripPrefix(path, ws_root)
        line_count == Len(Lines(content))
        doc == Doc(doc_id, rel_path, content, size, Extension(path), 1, line_count,
                   <<>>, <<>>)
        deleted == delete_by_path(docs, rel_path)
        added == AddDocument(deleted, doc)
    IN [res |-> "Ok", doc_id |-> doc_id,
        docs |-> AddAll(added, index_chunks(content, doc_id, rel_path))]

\* ------------------------------------------------------------------------
\* index/schema.rs: the "code" tokenizer
\* ------------------------------------------------------------------------

IsTokenChar(c) == IsAlphanumeric(c) \/ c \in {"_", "$", "@", "#", "-"}

RECURSIVE SkipWhitespace(_, _)
SkipWhitespace(text, i) ==
    IF i <= Len(text) /\ IsWhitespace(text[i]) THEN SkipWhitespace(text, i + 1) ELSE i

\* the last index of the run of token characters that starts at i
RECURSIVE RunEnd(_, _)
RunEnd(text, i) ==
    IF i < Len(text) /\ IsTokenChar(text[i + 1]) THEN RunEnd(text, i + 1) ELSE i

\* CodeTokenStream::advance, called until it returns false: the tokens with
\* their positions. Every call adds one to the position, also the calls that
\* advance makes on itself after skipping a punctuation character.
RECURSIVE Advance(_, _, _)
Advance(text, i, position) ==
    LET pos == position + 1
        start == SkipWhitespace(text, i)
    IN IF start > Len(text) THEN <<>>
       ELSE IF IsTokenChar(text[start])
       THEN LET end == RunEnd(text, start)
                next == IF end < Len(text) /\ ~IsWhitespace(text[end + 1])
                        THEN end + 2 ELSE end + 1
            IN <<[text |-> SubSeq(text, start, end), position |-> pos]>>
               \o Advance(text, next, pos)
       ELSE Advance(text, start + 1, pos)

RemoveLongLimit == 100

\* the analyzer registered as "code": CodeTokenizer, LowerCaser,
\* RemoveLongFilter::limit(100)
CodeTokens(text) ==
    LET raw == Advance(text, 1, -1)
        low == [i \in 1..Len(raw) |->
                   [text |-> ToLower(raw[i].text), position |-> raw[i].position]]
    IN SelectSeq(low, LAMBDA t : Len(t.text) < RemoveLongLimit)

TermSet(text) == {t.text : t \in SeqToSet(CodeTokens(text))}

\* ------------------------------------------------------------------------
\* search/searcher.rs
\* ------------------------------------------------------------------------

\* the documents of a bag, one element per copy: <<document, copy number>>
Copies(docs) == UNION {{<<d, n>> : n \in 1..docs[d]} : d \in BagToSet(docs)}

\* the query the lenient parser builds from the space-joined terms: a
\* document matches when its content holds one of the terms as a token
MatchesAnyTerm(d, terms) ==
    \E i \in 1..Len(terms) : ToLower(terms[i]) \in TermSet(d.content)

\* all sequences without repetition of length n over the set S
InjectiveSeqs(S, n) ==
    {q \in [1..n -> S] : \A i, j \in 1..n : i # j => q[i] # q[j]}

SnippetMaxLines == 10
SnippetContextBefore == 2

\* searcher.rs create_relevant_snippet
create_relevant_snippet(content, query, max_lines) ==
    LET lines == Lines(content)
        query_lower == ToLower(query)
        query_terms == SplitWhitespace(query_lower)
        matching == {i \in 1..Len(lines) :
                        \E k \in 1..Len(query_terms) :
                            Contains(ToLower(lines[i]), query_terms[k])}
    IN IF matching = {}
       THEN Join(SubSeq(lines, 1, Min(max_lines, Len(lines))), <<NL>>)
       ELSE LET first_match == (CHOOSE i \in matching : \A j \in matching : i <= j) - 1
                context_after == Max(max_lines - (SnippetContextBefore + 1), 0)
                start == Max(first_match - SnippetContextBefore, 0)
                end == Min(first_match + context_after + 1, Len(lines))
            IN Join(SubSeq(lines, start + 1, end), <<NL>>)

\* SearchHit
Hit(d, snippet, score) ==
    [path |-> d.path, line_start |-> d.line_start, line_end |-> d.line_end,
     snippet |-> snippet, score |-> score, is_chunk |-> d.chunk_id # <<>>,
     doc_id |-> d.doc_id]

\* limit.unwrap_or(default_limit).min(max_limit)
EffectiveLimit(limit) ==
    Min(IF limit = NoLimit THEN DefaultLimit ELSE limit, MaxLimit)

BM25FetchFactor == 10

\* the documents TopDocs::with_limit(fetch_limit) can return for the terms:
\* fetch_limit of the matching documents, all of them if there are fewer.
\* Which ones depends on their BM25 scores, which the model leaves open.
TopDocs(matching, fetch_limit) ==
    LET n == Min(fetch_limit, Cardinality(matching))
    IN {top \in SUBSET matching : Cardinality(top) = n}

\* a filter that keeps a document when any term of the query occurs in it
LiteralMatch_any_term(content, query) ==
    LET search_terms == SplitTerms(query, 1, << >>)
    IN \E t \in 1..Len(search_terms) :
          Contains(ToLower(content), ToLower(search_terms[t]))

\* the literal filter of Searcher::search
LiteralMatch(content, query) == Contains(ToLower(content), ToLower(query))

\* the loop of Searcher::search over top_docs in score order: the first
\* `limit` documents that pass the literal filter. The score order is left
\* open, so any `limit` of the passing documents, in any order, can result.
LiteralHits(top, query, limit) ==
    LET passing == {c \in top : LiteralMatch(c[1].content, query)}
    IN InjectiveSeqs(passing, Min(limit, Cardinality(passing)))

\* ------------------------------------------------------------------------
\* embeddings/model.rs, index/vector.rs
\* ------------------------------------------------------------------------

EMBEDDING_DIM == 384
EmbedTruncate == 8192
MinEmbedLen == 50
MaxEmbedLen == 50000
BATCH_SIZE == 32

\* EmbeddingModel::embed: the sentence encoder is outside the repository; the
\* model keeps the dimension of the vector and one coordinate, a
\* deterministic function of the text
Embed(text) == [dim |-> EMBEDDING_DIM, at |-> (Len(text) % 5) + 1]

\* the fallback vec![0.0; 384] used when embed fails
ZeroEmbedding == [dim |-> 384, at |-> 0]

\* DistCosine, on the coordinate the model keeps
Distance(u, v) == IF u.at >= v.at THEN u.at - v.at ELSE v.at - u.at

\* insert with ids counted from 1 (mutant)
insert_ids_from_one(dim, vs, graph, doc_id, embedding) ==
    IF embedding.dim # dim
    THEN [ok |-> FALSE, id |-> 0, vectors |-> vs, hnsw |-> graph]
    ELSE LET id == Len(vs) + 1
         IN [ok |-> TRUE, id |-> id,
             vectors |-> Append(vs, [doc_id |-> doc_id, vector |-> embedding]),
             hnsw |-> graph \cup {[d_id |-> id, vector |-> embedding]}]

\* insert without the test of the dimension (mutant)
insert_unchecked(dim, vs, graph, doc_id, embedding) ==
    LET id == Len(vs)
    IN [ok |-> TRUE, id |-> id,
        vectors |-> Append(vs, [doc_id |-> doc_id, vector |-> embedding]),
        hnsw |-> graph \cup {[d_id |-> id, vector |-> embedding]}]

\* VectorIndex::insert: Err on a dimension mismatch, else the vector is
\* pushed and put into the graph under id = its position
insert(dim, vs, graph, doc_id, embedding) ==
    IF embedding.dim # dim
    THEN [ok |-> FALSE, id |-> 0, vectors |-> vs, hnsw |-> graph]
    ELSE LET id == Len(vs)
         IN [ok |-> TRUE, id |-> id,
             vectors |-> Append(vs, [doc_id |-> doc_id, vector |-> embedding]),
             hnsw |-> graph \cup {[d_id |-> id, vector |-> embedding]}]

\* VectorIndex::new(path, dimension): an empty index
new(dim) == [dimension |-> dim, vectors |-> << >>, hnsw |-> {}]

\* VectorIndex::exists: vectors.json is there
exists(json) == json # << >>

\* the loop of VectorIndex::load that re-inserts the stored vectors, the
\* i-th of them under the id i - 1 of enumerate() (mutant: ids from 1)
LoadGraph_ids_from_one(vs) == {[d_id |-> i, vector |-> vs[i].vector] : i \in 1..Len(vs)}

\* VectorIndex::load: the graph is rebuilt from the stored vectors, in order
LoadGraph(vs) == {[d_id |-> i - 1, vector |-> vs[i].vector] : i \in 1..Len(vs)}

\* VectorIndex::load: dimension and vectors are those of the file
load(json) ==
    [dimension |-> json[1].dimension, vectors |-> json[1].vectors,
     hnsw |-> LoadGraph(json[1].vectors)]

\* VectorIndex::save: VectorData of the dimension and a copy of the vectors
save(vi) == <<[dimension |-> vi.dimension, vectors |-> vi.vectors]>>

\* VectorIndex::clear: the memory is emptied, the file is left alone
clear(vi) == [vi EXCEPT !.vectors = << >>, !.hnsw = {}]

\* Hnsw::search(query, k, ef_search): the k nearest points by ascending
\* distance; with ef_search = max(k, 30) above the number of points of the
\* model the search is exhaustive, and ties come in any order
Neighbours(graph, query, k) ==
    LET n == Min(k, Cardinality(graph))
    IN {q \in InjectiveSeqs(graph, n) :
          /\ \A i \in 1..(n - 1) :
                Distance(q[i].vector, query) <= Distance(q[i + 1].vector, query)
          /\ \A p \in graph \ SeqToSet(q) : \A i \in 1..n :
                Distance(q[i].vector, query) <= Distance(p.vector, query)}

\* VectorIndex::search on a neighbour list: (id, distance, doc_id) triples
search(vs, neighbours, query) ==
    IF vs = <<>> THEN <<>>
    ELSE LET found == SelectSeq(neighbours, LAMBDA nb : nb.d_id < Len(vs))
         IN [i \in 1..Len(found) |->
                [id |-> found[i].d_id,
                 distance |-> Distance(found[i].vector, query),
                 doc_id |-> vs[found[i].d_id + 1].doc_id]]

\* VectorIndex::search(query, k): Err on a dimension mismatch, else the
\* results over one of the neighbour lists the graph may give
VectorIndex_search(vi, query, k) ==
    IF query.dim # vi.dimension THEN {[ok |-> FALSE, results |-> << >>]}
    ELSE {[ok |-> TRUE, results |-> search(vi.vectors, nb, query)] :
              nb \in Neighbours(vi.hnsw, query, k)}

\* ------------------------------------------------------------------------
\* search/hybrid.rs
\* ------------------------------------------------------------------------

HybridFetchFactor == 3

\* the phrase query that the lenient parser builds from the quoted query: the
\* query's tokens at the same relative positions in the document; one token
\* is a term query, no token matches nothing
PhraseMatch(content, query) ==
    LET qt == CodeTokens(query)
        dt == CodeTokens(content)
    IN /\ qt # <<>>
       /\ \E b \in 1..Len(dt) :
            \A i \in 1..Len(qt) :
                \E j \in 1..Len(dt) :
                    /\ dt[j].text = qt[i].text
                    /\ dt[j].position - dt[b].position
                         = qt[i].position - qt[1].position

RankedResult(d, doc_id, rank) ==
    [doc_id |-> doc_id, path |-> d.path, content |-> d.content,
     line_start |-> d.line_start, line_end |-> d.line_end,
     is_chunk |-> d.chunk_id # <<>>, rank |-> rank]

\* HybridSearcher::bm25_search: the ranked lists it can return; the order of
\* the scores is left open
bm25_search(docs, query, limit) ==
    UNION { {[i \in 1..Cardinality(top) |-> RankedResult(q[i][1], q[i][1].doc_id, i)] :
                q \in InjectiveSeqs(top, Cardinality(top))} :
            top \in TopDocs({c \in Copies(docs) : PhraseMatch(c[1].content, query)},
                            limit) }

\* HybridSearcher::lookup_by_doc_id: the documents TopDocs::with_limit(1) can
\* return for the term query on doc_id
lookup_by_doc_id(docs, doc_id) ==
    {d \in BagToSet(docs) : d.doc_id = doc_id}

\* the loop of HybridSearcher::vector_search over the neighbours, from the
\* i-th on: a neighbour whose doc_id no document has is left out, the others
\* keep the rank of their place in the neighbour list
RECURSIVE VectorResultsFrom(_, _, _)
VectorResultsFrom(docs, neighbors, i) ==
    IF i > Len(neighbors) THEN {<<>>}
    ELSE LET found == lookup_by_doc_id(docs, neighbors[i].doc_id)
             rest == VectorResultsFrom(docs, neighbors, i + 1)
         IN IF found = {} THEN rest
            ELSE {<<RankedResult(d, neighbors[i].doc_id, i)>> \o r :
                    d \in found, r \in rest}

\* HybridSearcher::vector_search, given the query's embedding
vector_search(docs, vs, graph, query_embedding, limit) ==
    IF vs = <<>> THEN {<<>>}
    ELSE UNION {VectorResultsFrom(docs, search(vs, nb, query_embedding), 1) :
                  nb \in Neighbours(graph, query_embedding, limit)}

\* hybrid.rs create_relevant_snippet: the first max_lines lines
hybrid_create_relevant_snippet(content, max_lines) ==
    LET lines == Lines(content)
    IN Join(SubSeq(lines, 1, Min(max_lines, Len(lines))), <<NL>>)

\* scores are fractions; the weights are in tenths, so every score is ten
\* times the code's
Frac(num, den) == [num |-> num, den |-> den]
FracZero == Frac(0, 1)
FracAdd(a, b) == Frac(a.num * b.den + b.num * a.den, a.den * b.den)
FracLeq(a, b) == a.num * b.den <= b.num * a.den
FracEq(a, b) == a.num * b.den = b.num * a.den

K == 60

\* weight / (K + rank)
RrfScore(weight, rank) == Frac(weight, K + rank)

\* the value a loop of `entry.x_rrf = rrf_score` leaves for doc_id: that of
\* the last result of the list with this doc_id, 0.0 if there is none
EntryScore(results, doc_id, weight) ==
    LET at == {i \in 1..Len(results) : results[i].doc_id = doc_id}
    IN IF at = {} THEN FracZero
       ELSE LET last == CHOOSE i \in at : \A j \in at : j <= i
            IN RrfScore(weight, results[last].rank)

\* the result or_insert_with keeps for doc_id: the first one inserted
EntryResult(bm25_results, vector_results, doc_id) ==
    LET all == bm25_results \o vector_results
        at == {i \in 1..Len(all) : all[i].doc_id = doc_id}
    IN all[CHOOSE i \in at : \A j \in at : i <= j]

\* combined_scores.into_values() mapped to SearchHit
FusedHits(bm25_results, vector_results, bm25_weight, vector_weight) ==
    LET ids == {bm25_results[i].doc_id : i \in 1..Len(bm25_results)}
                 \cup {vector_results[i].doc_id : i \in 1..Len(vector_results)}
    IN { LET r == EntryResult(bm25_results, vector_results, id)
             total_score == FracAdd(EntryScore(bm25_results, id, bm25_weight),
                                    EntryScore(vector_results, id, vector_weight))
         IN [path |-> r.path, line_start |-> r.line_start, line_end |-> r.line_end,
             snippet |-> hybrid_create_relevant_snippet(r.content, SnippetMaxLines),
             score |-> total_score, is_chunk |-> r.is_chunk, doc_id |-> r.doc_id]
         : id \in ids }

\* a sort that compares a with b: every arrangement with non-decreasing scores
RECURSIVE SortedByScore_ascending(_)
SortedByScore_ascending(hits) ==
    IF hits = {} THEN {<<>>}
    ELSE LET low == {h \in hits : \A g \in hits : FracLeq(h.score, g.score)}
         IN UNION {{<<h>> \o rest : rest \in SortedByScore_ascending(hits \ {h})} :
                      h \in low}

\* hits.sort_by(score descending) on the map's values, which come in any
\* order: every arrangement of the hits with non-increasing scores
RECURSIVE SortedByScore(_)
SortedByScore(hits) ==
    IF hits = {} THEN {<<>>}
    ELSE LET top == {h \in hits : \A g \in hits : FracLeq(g.score, h.score)}
         IN UNION {{<<h>> \o rest : rest \in SortedByScore(hits \ {h})} : h \in top}

\* HybridSearcher::reciprocal_rank_fusion: the lists it can return
reciprocal_rank_fusion(bm25_results, vector_results, bm25_weight, vector_weight) ==
    SortedByScore(FusedHits(bm25_results, vector_results, bm25_weight, vector_weight))

\* SearchConfig::min_score (0.1) on the scale of the scores
MinScore == Frac(10, 10)

\* a take(limit) that first drops the hits below min_score
Take_above_min_score(q, n) ==
    LET kept == SelectSeq(q, LAMBDA h : FracLeq(MinScore, h.score))
    IN SubSeq(kept, 1, IF n <= Len(kept) THEN n ELSE Len(kept))

\* into_iter().take(limit)
Take(q, n) == SubSeq(q, 1, Min(n, Len(q)))

\* ------------------------------------------------------------------------
\* fs/symlink.rs and FileWalker::walk
\* ------------------------------------------------------------------------

\* A file tree as the resolver sees it: `files` is the set of the absolute
\* paths of regular files, `links` maps the absolute path of a symbolic link
\* to the target written in it (absolute, or relative to the link's parent)
Tree(regular, symlinks) == [files |-> regular, links |-> symlinks]

\* Path::parent of an absolute path of a file
Parent(path) ==
    LET slashes == {i \in 1..Len(path) : path[i] = "/"}
        last == CHOOSE i \in slashes : \A j \in slashes : j <= i
    IN SubSeq(path, 1, last - 1)

\* `resolved`: an absolute target as it is, a relative one joined to the
\* parent of the link
ResolveTarget(path, target) ==
    IF target # <<>> /\ target[1] = "/" THEN target ELSE PathJoin(Parent(path), target)

\* fs::canonicalize: << >> if it fails (nothing at the path, or a loop of
\* links), else <<the regular file the chain of links ends at>>
RECURSIVE canonicalize_from(_, _, _)
canonicalize_from(tree, path, hops) ==
    IF path \in tree.files THEN <<path>>
    ELSE IF path \in DOMAIN tree.links /\ hops > 0
    THEN canonicalize_from(tree, ResolveTarget(path, tree.links[path]), hops - 1)
    ELSE << >>

canonicalize(tree, path) == canonicalize_from(tree, path, Cardinality(DOMAIN tree.links))

MaxSymlinkDepth == 20

\* SymlinkResolver::new
SymlinkResolver_new(follow_symlinks) ==
    [visited_canonical |-> {}, max_depth |-> MaxSymlinkDepth,
     follow_symlinks |-> follow_symlinks]

Skipped(res, reason) ==
    [resolved |-> FALSE, reason |-> reason, original |-> <<>>, canonical |-> <<>>,
     is_symlink |-> FALSE, resolver |-> res]

\* Resolved without the insert into the visited set (mutant)
Resolved_not_recorded(res, original, canonical, is_symlink) ==
    [resolved |-> TRUE, reason |-> "", original |-> original, canonical |-> canonical,
     is_symlink |-> is_symlink, resolver |-> res]

Resolved(res, original, canonical, is_symlink) ==
    [resolved |-> TRUE, reason |-> "", original |-> original, canonical |-> canonical,
     is_symlink |-> is_symlink,
     resolver |-> [res EXCEPT !.visited_canonical = @ \cup {canonical}]]

\* resolve_inner with Duplicate as the reason for a link too (mutant)
resolve_inner_link_duplicate(res, tree, path, depth) ==
    IF depth > res.max_depth THEN Skipped(res, "DepthExceeded")
    ELSE IF path \notin tree.files /\ path \notin DOMAIN tree.links
    THEN Skipped(res, "NotFound")
    ELSE IF path \in DOMAIN tree.links /\ ~res.follow_symlinks
    THEN Skipped(res, "SymlinkNotFollowed")
    ELSE LET c == canonicalize(tree, path)
         IN IF c = << >> THEN Skipped(res, "BrokenSymlink")
            ELSE IF c[1] \in res.visited_canonical THEN Skipped(res, "Duplicate")
            ELSE Resolved(res, path, c[1], path \in DOMAIN tree.links)

\* resolve_inner without the tests of the visited set (mutant)
resolve_inner_unchecked(res, tree, path, depth) ==
    IF depth > res.max_depth THEN Skipped(res, "DepthExceeded")
    ELSE IF path \notin tree.files /\ path \notin DOMAIN tree.links
    THEN Skipped(res, "NotFound")
    ELSE IF path \in DOMAIN tree.links
    THEN IF ~res.follow_symlinks THEN Skipped(res, "SymlinkNotFollowed")
         ELSE LET canonical == canonicalize(tree, ResolveTarget(path, tree.links[path]))
              IN IF canonical = << >> THEN Skipped(res, "BrokenSymlink")
                 ELSE Resolved(res, path, canonical[1], TRUE)
    ELSE Resolved(res, path, path, FALSE)

\* resolve_inner that records a link it does not follow (mutant)
resolve_inner_records_first(res, tree, path, depth) ==
    IF depth > res.max_depth THEN Skipped(res, "DepthExceeded")
    ELSE IF path \notin tree.files /\ path \notin DOMAIN tree.links
    THEN Skipped(res, "NotFound")
    ELSE IF path \in DOMAIN tree.links
    THEN IF ~res.follow_symlinks
         THEN Skipped([res EXCEPT !.visited_canonical = @ \cup {path}], "SymlinkNotFollowed")
         ELSE LET resolved == ResolveTarget(path, tree.links[path])
                  canonical == canonicalize(tree, resolved)
              IN IF canonical = << >> THEN Skipped(res, "BrokenSymlink")
                 ELSE IF canonical[1] \in res.visited_canonical
                 THEN Skipped(res, "CircularSymlink")
                 ELSE Resolved(res, path, canonical[1], TRUE)
    ELSE LET c == canonicalize(tree, path)
             canonical == IF c = << >> THEN path ELSE c[1]
         IN IF canonical \in res.visited_canonical
            THEN Skipped(res, "Duplicate")
            ELSE Resolved(res, path, canonical, FALSE)

\* SymlinkResolver::resolve_inner: the result, with the resolver after it
resolve_inner(res, tree, path, depth) ==
    IF depth > res.max_depth THEN Skipped(res, "DepthExceeded")
    ELSE IF path \notin tree.files /\ path \notin DOMAIN tree.links
    THEN Skipped(res, "NotFound")
    ELSE IF path \in DOMAIN tree.links
    THEN IF ~res.follow_symlinks THEN Skipped(res, "SymlinkNotFollowed")
         ELSE LET resolved == ResolveTarget(path, tree.links[path])
                  canonical == canonicalize(tree, resolved)
              IN IF canonical = << >> THEN Skipped(res, "BrokenSymlink")
                 ELSE IF canonical[1] \in res.visited_canonical
                 THEN Skipped(res, "CircularSymlink")
                 ELSE Resolved(res, path, canonical[1], TRUE)
    ELSE LET c == canonicalize(tree, path)
             canonical == IF c = << >> THEN path ELSE c[1]
         IN IF canonical \in res.visited_canonical
            THEN Skipped(res, "Duplicate")
            ELSE Resolved(res, path, canonical, FALSE)

\* SymlinkResolver::resolve
resolve(res, tree, path) == resolve_inner(res, tree, path, 0)

\* SymlinkResolver::mark_visited
mark_visited(res, canonical) == [res EXCEPT !.visited_canonical = @ \cup {canonical}]

\* SymlinkResolver::reset
reset(res) == [res EXCEPT !.visited_canonical = {}]

\* WalkDir with filter_entry: the entry of the root directory itself, of every
\* directory between the root and the file, and of the file must all pass
PassesFilterEntry(ws_root, rel) ==
    LET cs == Components(rel)
    IN /\ filter_entry(FileName(ws_root), TRUE)
       /\ \A i \in 1..(Len(cs) - 1) : filter_entry(cs[i], TRUE)
       /\ filter_entry(cs[Len(cs)], FALSE)

\* the filter_map closure of walk, up to the resolver
PassesFilters(ws_root, fs, rel) ==
    LET path == PathJoin(ws_root, rel)
    IN /\ PassesFilterEntry(ws_root, rel)
       /\ ~matches_ignore_pattern(path)
       /\ is_indexable(path, fs[rel])

\* what std::fs::read gives is_text_file when the read fails: the answer is
\* false, as for a file with a NUL byte
Unreadable == <<"\\0">>

\* the tree below the root as the resolver sees it
TreeOf(ws_root, fs, links) ==
    Tree({PathJoin(ws_root, rel) : rel \in DOMAIN fs},
         [path \in {PathJoin(ws_root, rel) : rel \in DOMAIN links} |->
              links[StripPrefix(path, ws_root)]])

\* the files as reads through the links see them: a link reads as the
\* regular file its chain ends at
ReadThrough(ws_root, fs, links) ==
    LET tree == TreeOf(ws_root, fs, links)
    IN [rel \in DOMAIN fs \cup DOMAIN links |->
           IF rel \in DOMAIN fs THEN fs[rel]
           ELSE LET c == canonicalize(tree, PathJoin(ws_root, rel))
                IN IF c = << >> THEN Unreadable ELSE fs[StripPrefix(c[1], ws_root)]]

\* the iterator of FileWalker::walk over the entries in directory order
\* `order`, on the tree `tree` whose files read as `view`. With follow_links,
\* WalkDir gives an error for a link that leads nowhere, and entry.ok()
\* drops it
RECURSIVE WalkEntries(_, _, _, _, _)
WalkEntries(ws_root, tree, view, order, res) ==
    IF order = <<>> THEN [entries |-> <<>>, canonicals |-> <<>>, resolver |-> res]
    ELSE LET rel == order[1]
             path == PathJoin(ws_root, rel)
             entry_ok == ~(res.follow_symlinks /\ canonicalize(tree, path) = << >>)
         IN IF ~entry_ok \/ ~PassesFilters(ws_root, view, rel)
            THEN WalkEntries(ws_root, tree, view, Tail(order), res)
            ELSE LET r == resolve(res, tree, path)
                     rest == WalkEntries(ws_root, tree, view, Tail(order), r.resolver)
                 IN IF r.resolved
                    THEN [rest EXCEPT !.entries = <<r.original>> \o @,
                                      !.canonicals = <<r.canonical>> \o @]
                    ELSE rest

\* FileWalker::walk over the files and links below the root: the paths and
\* canonical paths of the WalkEntry values it yields and the resolver after
\* the walk
walk(ws_root, fs, links, order, res) ==
    WalkEntries(ws_root, TreeOf(ws_root, fs, links), ReadThrough(ws_root, fs, links),
                order, res)

\* ------------------------------------------------------------------------
\* lib.rs: Workspace
\* ------------------------------------------------------------------------

\* a loop that counts a file that is too large as skipped and as an error
\* (mutant)
RECURSIVE IndexEntries_skipped_is_error(_, _, _, _, _)
IndexEntries_skipped_is_error(acc, fs, ws_root, entries, with_embeddings) ==
    IF entries = <<>> THEN acc
    ELSE LET r == index_file(acc.docs, fs, ws_root, entries[1])
             next ==
                IF r.res = "Ok"
                THEN [acc EXCEPT !.docs = r.docs, !.indexed = @ + 1]
                ELSE IF r.res = "FileTooLarge"
                THEN [acc EXCEPT !.skipped = @ + 1, !.errors = @ + 1]
                ELSE [acc EXCEPT !.errors = @ + 1]
         IN IndexEntries_skipped_is_error(next, fs, ws_root, Tail(entries), with_embeddings)

\* the loop `for entry in walker.walk()` of index_all_with_options
RECURSIVE IndexEntries(_, _, _, _, _)
IndexEntries(acc, fs, ws_root, entries, with_embeddings) ==
    IF entries = <<>> THEN acc
    ELSE LET r == index_file(acc.docs, fs, ws_root, entries[1])
             rel == StripPrefix(entries[1], ws_root)
             next ==
                IF r.res = "Ok"
                THEN [acc EXCEPT !.docs = r.docs,
                                 !.indexed = @ + 1,
                                 !.embedding_batch =
                                     IF with_embeddings /\ ReadOk(fs, rel)
                                     THEN Append(@, <<r.doc_id, fs[rel]>>)
                                     ELSE @]
                ELSE IF r.res = "FileTooLarge"
                THEN [acc EXCEPT !.skipped = @ + 1]
                ELSE [acc EXCEPT !.errors = @ + 1]
         IN IndexEntries(next, fs, ws_root, Tail(entries), with_embeddings)

\* &content[..8192] for a longer content
TruncateForEmbedding(content) ==
    IF Len(content) > EmbedTruncate THEN SubSeq(content, 1, EmbedTruncate) ELSE content

\* the loop that inserts the embeddings of one batch
RECURSIVE InsertAll(_, _)
InsertAll(vi, batch) ==
    IF batch = <<>> THEN vi
    ELSE LET r == insert(vi.dimension, vi.vectors, vi.hnsw, batch[1][1],
                         Embed(TruncateForEmbedding(batch[1][2])))
         IN InsertAll([vi EXCEPT !.vectors = r.vectors, !.hnsw = r.hnsw], Tail(batch))

\* the loop `for chunk in filtered_batch.chunks(BATCH_SIZE)`, from the entry
\* at `from`: a batch that embed_batch fails on (batch_ok false) is left out
RECURSIVE EmbedBatches(_, _, _, _)
EmbedBatches(vi, filtered_batch, from, batch_ok) ==
    IF from > Len(filtered_batch) THEN vi
    ELSE LET to == Min(from + BATCH_SIZE - 1, Len(filtered_batch))
             b == ((from - 1) \div BATCH_SIZE) + 1
         IN IF ~batch_ok[b]
            THEN EmbedBatches(vi, filtered_batch, to + 1, batch_ok)
            ELSE EmbedBatches(InsertAll(vi, SubSeq(filtered_batch, from, to)),
                              filtered_batch, to + 1, batch_ok)

\* all arrangements of the elements of a set
Orders(S) == InjectiveSeqs(S, Cardinality(S))

\* the files a caller may write: path and contents
Writes ==
    ({PathA} \X {ContentFoo, ContentFive, ContentBig, ContentBad})
        \cup ({PathB} \X {ContentFoo, ContentFive})
        \cup ({PathHidden} \X {ContentFoo})

\* the files written where the vector index is looked at: long enough to embed
WritesLong == ({PathA} \X {ContentLate, ContentBar}) \cup ({PathB} \X {ContentBar})

\* the files written where searches are looked at
WritesSearch ==
    ({PathA} \X {ContentFoo, ContentLate}) \cup ({PathB} \X {ContentFoo, ContentBar})

Idle == [op |-> "none"]

\* hash_path: the name of a workspace's index directory; the hash function is
\* outside the repository, the model gives it one distinct value per path
hash_path(path) ==
    Hex16(CASE path = RootPlain -> 7 [] path = RootHidden -> 8 [] OTHER -> 9)

\* the workspace.json that a full pass writes into the index directory: valid
\* JSON whose key "workspace" holds the root
WorkspaceJson(ws) == <<[json |-> TRUE, workspace |-> <<ws>>]>>

\* the workspace was opened before and a full pass over its empty tree wrote
\* workspace.json into its index directory (lib.rs 62-64, 215-224); no
\* embedding was asked for, nothing is cached and no thread is inside a call: the model is not loaded (EmbeddingModel::new),
\* the cache is empty (EmbeddingCache::new)
InitOthers ==
    /\ model = [guard |-> << >>, writer |-> 0, loads |-> 0]
    /\ cache = << >>
    /\ indexes = [h \in {hash_path(root)} |-> WorkspaceJson(root)]
    /\ existing = {root}
    /\ threads = [t \in Threads |-> ThreadIdle]

\* Workspace::open_with_config on a root whose tree and index are empty
Init ==
    /\ root \in Roots
    /\ InitOthers
    /\ files = << >>
    /\ index = EmptyBag
    /\ writer = << >>
    /\ vectors = << >>
    /\ hnsw = {}
    /\ vectorsJson = << >>
    /\ dimension = EMBEDDING_DIM
    /\ resolver = SymlinkResolver_new(TRUE)
    /\ ret = [op |-> "open"]

\* a file of the tree is created or rewritten (outside the program)
WriteFile(rel, content) ==
    /\ files' = [p \in DOMAIN files \cup {rel} |-> IF p = rel THEN content ELSE files[p]]
    /\ ret' = Idle
    /\ UNCHANGED <<others, root, index, writer, vectors, hnsw, vectorsJson, dimension, resolver>>

\* a file of the tree is removed (outside the program)
RemoveFile(rel) ==
    /\ rel \in DOMAIN files
    /\ files' = [p \in DOMAIN files \ {rel} |-> files[p]]
    /\ ret' = Idle
    /\ UNCHANGED <<others, root, index, writer, vectors, hnsw, vectorsJson, dimension, resolver>>

\* Workspace::open_with_config on a workspace opened before: the inverted
\* index is the committed one, the vector index is loaded from vectors.json
\* if the file exists and is new otherwise
Open ==
    /\ writer = << >>
    /\ LET vi == IF exists(vectorsJson) THEN load(vectorsJson) ELSE new(EMBEDDING_DIM)
       IN /\ dimension' = vi.dimension
          /\ vectors' = vi.vectors
          /\ hnsw' = vi.hnsw
    /\ ret' = [op |-> "open"]
    /\ UNCHANGED <<others, root, files, index, writer, vectorsJson, resolver>>

\* Workspace::index_all_with_options(with_embeddings); `order` is the order in
\* which the directory walk meets the files, batch_ok says which embed_batch
\* calls succeed. The pass runs alone here (no other indexer is open); the
\* passes of several threads are taken step by step further down.
IndexAll(with_embeddings, order, batch_ok) ==
    /\ writer = << >>
    /\ LET w == walk(root, files, NoLinks, order, SymlinkResolver_new(FollowSymlinks))
           start == [docs |-> index, indexed |-> 0, skipped |-> 0, errors |-> 0,
                     embedding_batch |-> << >>]
           done == IndexEntries(start, files, root, w.entries, with_embeddings)
           filtered_batch ==
               SelectSeq(done.embedding_batch,
                         LAMBDA e : Len(e[2]) >= MinEmbedLen /\ Len(e[2]) <= MaxEmbedLen)
           cleared == clear([dimension |-> dimension, vectors |-> vectors, hnsw |-> hnsw])
           embed == with_embeddings /\ done.embedding_batch # << >>
                        /\ filtered_batch # << >>
           vi == IF embed THEN EmbedBatches(cleared, filtered_batch, 1, batch_ok)
                 ELSE cleared
       IN /\ index' = done.docs
          /\ vectors' = vi.vectors
          /\ hnsw' = vi.hnsw
          /\ vectorsJson' = IF embed THEN save(vi) ELSE vectorsJson
          /\ indexes' = [h \in DOMAIN indexes \cup {hash_path(root)} |->
                             IF h = hash_path(root) THEN WorkspaceJson(root)
                             ELSE indexes[h]]
          /\ ret' = [op |-> "index_all", with_embeddings |-> with_embeddings,
                     entries |-> w.entries,
                     stats |-> [indexed |-> done.indexed, skipped |-> done.skipped,
                                errors |-> done.errors,
                                unique_paths |-> Cardinality(w.resolver.visited_canonical)]]
    /\ UNCHANGED <<model, cache, existing, threads, root, files, writer, dimension,
                   resolver>>

\* the doc_ids of the whole-file documents of a path: what a call that
\* re-indexes the path finds there (kept with the call's result, for the
\* properties)
WholeIds(docs, rel) ==
    {d.doc_id : d \in {e \in BagToSet(docs) : e.path = rel /\ e.chunk_id = <<>>}}

\* Workspace::index_file(path); the result keeps what the call found indexed
\* at the path and whether the call before it was delete_file of that path
WsIndexFile(rel) ==
    /\ writer = << >>
    /\ LET r == index_file(index, files, root, PathJoin(root, rel))
       IN /\ index' = IF r.res = "Ok" THEN r.docs ELSE index
          /\ ret' = [op |-> "index_file", path |-> rel,
                     res |-> IF r.res = "Io" THEN "Err" ELSE "Ok",
                     replaced |-> WholeIds(index, rel),
                     after_delete |-> ret.op = "delete_file" /\ ret.path = rel]
    /\ UNCHANGED <<others, root, files, writer, vectors, hnsw, vectorsJson, dimension, resolver>>

\* Workspace::delete_file(path): the term is built on the doc_id field from
\* the workspace-relative path
WsDeleteFile(rel) ==
    /\ writer = << >>
    /\ LET relative_path == StripPrefix(PathJoin(root, rel), root)
       IN index' = DeleteTerm(index, "doc_id", relative_path)
    /\ ret' = [op |-> "delete_file", path |-> rel, res |-> "Ok"]
    /\ UNCHANGED <<others, root, files, writer, vectors, hnsw, vectorsJson, dimension, resolver>>

\* Indexer::new: the index's single writer
IndexerNew ==
    /\ writer = << >>
    /\ writer' = <<index>>
    /\ ret' = Idle
    /\ UNCHANGED <<others, root, files, index, vectors, hnsw, vectorsJson, dimension, resolver>>

\* Indexer::index_file(path) on the open indexer
IndexerIndexFile(rel) ==
    /\ writer # << >>
    /\ LET r == index_file(writer[1], files, root, PathJoin(root, rel))
       IN /\ writer' = <<r.docs>>
          /\ ret' = [op |-> "indexer_index_file", path |-> rel, res |-> r.res,
                     replaced |-> WholeIds(writer[1], rel)]
    /\ UNCHANGED <<others, root, files, index, vectors, hnsw, vectorsJson, dimension, resolver>>

\* Indexer::commit (an indexer made by Indexer::new has no vector index)
IndexerCommit ==
    /\ writer # << >>
    /\ index' = writer[1]
    /\ ret' = [op |-> "commit"]
    /\ UNCHANGED <<others, root, files, writer, vectors, hnsw, vectorsJson, dimension, resolver>>

\* the indexer is dropped: what it did not commit is lost
IndexerDrop ==
    /\ writer # << >>
    /\ writer' = << >>
    /\ ret' = Idle
    /\ UNCHANGED <<others, root, files, index, vectors, hnsw, vectorsJson, dimension, resolver>>

\* a search that, for a query without terms, scans every document with the
\* literal filter (mutant)
Searcher_search_scan_without_terms(docs, query, limit) ==
    LET lim == EffectiveLimit(limit)
    IN UNION {
         {[hits |-> [i \in 1..Len(found) |->
                       Hit(found[i][1],
                           create_relevant_snippet(found[i][1].content, query,
                                                   SnippetMaxLines),
                           0)],
           from |-> [i \in 1..Len(found) |-> found[i][1]]] :
            found \in LiteralHits(top, query, lim)} :
         top \in TopDocs(Copies(docs), lim * BM25FetchFactor)}

\* Searcher::search(query, limit) on the committed documents: the results it
\* can return, each with the documents its hits were built from
Searcher_search(docs, query, limit) ==
    LET lim == EffectiveLimit(limit)
        search_terms == SplitTerms(query, 1, << >>)
    IN IF search_terms = << >> THEN {[hits |-> << >>, from |-> << >>]}
       ELSE UNION {
              {[hits |-> [i \in 1..Len(found) |->
                            Hit(found[i][1],
                                create_relevant_snippet(found[i][1].content, query,
                                                        SnippetMaxLines),
                                0)],
                from |-> [i \in 1..Len(found) |-> found[i][1]]] :
                 found \in LiteralHits(top, query, lim)} :
              top \in TopDocs({c \in Copies(docs) : MatchesAnyTerm(c[1], search_terms)},
                              lim * BM25FetchFactor)}

\* Workspace::search(query, limit)
Search(query, limit) ==
    /\ \E r \in Searcher_search(index, query, limit) :
         ret' = [op |-> "search", query |-> query, limit |-> limit,
                 hits |-> r.hits, from |-> r.from]
    /\ UNCHANGED <<others, root, files, index, writer, vectors, hnsw, vectorsJson, dimension, resolver>>

Bm25Weight == 5
VectorWeight == 5

\* Workspace::search_hybrid(query, limit): HybridSearcher::search; embed_ok
\* says whether the model embeds the query
SearchHybrid(query, limit, embed_ok) ==
    /\ LET lim == EffectiveLimit(limit)
           fetch_limit == lim * HybridFetchFactor
           query_embedding == IF embed_ok THEN Embed(query) ELSE ZeroEmbedding
       IN \E bm25_results \in bm25_search(index, query, fetch_limit) :
          \E vector_results \in
                vector_search(index, vectors, hnsw, query_embedding, fetch_limit) :
          \E fused \in reciprocal_rank_fusion(bm25_results, vector_results,
                                              Bm25Weight, VectorWeight) :
             ret' = [op |-> "search_hybrid", query |-> query, limit |-> limit,
                     bm25_results |-> bm25_results, vector_results |-> vector_results,
                     hits |-> Take(fused, lim)]
    /\ UNCHANGED <<others, root, files, index, writer, vectors, hnsw, vectorsJson, dimension, resolver>>

Limits == {NoLimit} \cup (1..MaxRequest)

\* ------------------------------------------------------------------------
\* ygrep-cli commands/search.rs
\* ------------------------------------------------------------------------

\* VectorIndex::is_empty, Workspace::has_semantic_index
is_empty(vs) == Len(vs) = 0
has_semantic_index(vs) == ~is_empty(vs)

\* a dispatch that does not look at text_only (mutant)
use_hybrid_whenever_semantic(text_only, vs) == has_semantic_index(vs)

\* let use_hybrid = !text_only && workspace.has_semantic_index()
use_hybrid(text_only, vs) == ~text_only /\ has_semantic_index(vs)

\* HybridSearcher::search: the hit lists it can return
HybridSearcher_search(docs, vs, graph, query, limit, embed_ok) ==
    LET lim == EffectiveLimit(limit)
        fetch_limit == lim * HybridFetchFactor
        query_embedding == IF embed_ok THEN Embed(query) ELSE ZeroEmbedding
    IN UNION { UNION { {Take(fused, lim) :
                           fused \in reciprocal_rank_fusion(bm25_results, vector_results,
                                                            Bm25Weight, VectorWeight)} :
                       vector_results \in
                           vector_search(docs, vs, graph, query_embedding, fetch_limit)} :
               bm25_results \in bm25_search(docs, query, fetch_limit) }

\* str::eq_ignore_ascii_case
EqIgnoreCase(a, b) == ToLower(a) = ToLower(b)

\* search_filtered, the limit handed to Searcher::search:
\* Some(limit.unwrap_or(max_limit) * 2)
FilteredAsked(limit) == (IF limit = NoLimit THEN MaxLimit ELSE limit) * 2

\* search_filtered, the two retain calls on the hits' paths (an empty set
\* stands for None)
RetainFiltered(hits, extensions, paths) ==
    LET by_extension ==
            IF extensions = {} THEN hits
            ELSE SelectSeq(hits, LAMBDA hit :
                    /\ Extension(hit.path) # << >>
                    /\ \E e \in extensions : EqIgnoreCase(e, Extension(hit.path)))
    IN IF paths = {} THEN by_extension
       ELSE SelectSeq(by_extension, LAMBDA hit :
               \E p \in paths : StartsWith(hit.path, p) \/ Contains(hit.path, p))

\* Searcher::search_filtered: a search for twice the limit, the two filters,
\* then the limit
search_filtered(docs, query, limit, extensions, paths) ==
    {Take(RetainFiltered(r.hits, extensions, paths), EffectiveLimit(limit)) :
        r \in Searcher_search(docs, query, FilteredAsked(limit))}

\* the --ext and --path filters of the model
CliFilters ==
    { [extensions |-> {}, paths |-> {}],
      [extensions |-> {<<"R", "S">>}, paths |-> {<<"s", "/">>}],
      [extensions |-> {<<"m", "d">>}, paths |-> {}] }

\* the files of the workspaces the search command runs on
WritesCli == {<<PathA, ContentLate>>, <<PathB, ContentBar>>}

\* open_with_config, lines 62-72: create_dir_all makes the index directory
\* and, where meta.json is missing, Index::create_in_dir writes it; the
\* directory of the model is there with its meta.json or not at all, and a
\* new one holds no workspace.json
open_index_dir(dirs, ws) ==
    [h \in DOMAIN dirs \cup {hash_path(ws)} |-> IF h \in DOMAIN dirs THEN dirs[h] ELSE << >>]

\* Workspace::is_indexed: meta.json exists in the index directory
is_indexed(dirs, ws) == hash_path(ws) \in DOMAIN dirs

\* commands::search::run in a process of its own: Workspace::open makes the
\* index directory and loads the vector index from vectors.json; the pass of
\* lines 22-30 is for a workspace where is_indexed() fails (`auto_index`);
\* then the search goes to one of the two searchers. `searcher` says which
\* one ran.
CliSearchNoting(query, limit, text_only, extensions, paths, embed_ok, given) ==
    /\ writer = << >>
    /\ indexes' = open_index_dir(indexes, root)
    /\ LET vi == IF exists(vectorsJson) THEN load(vectorsJson) ELSE new(EMBEDDING_DIM)
           hybrid == use_hybrid(text_only, vi.vectors)
           results ==
               IF hybrid
               THEN HybridSearcher_search(index, vi.vectors, vi.hnsw, query, limit, embed_ok)
               ELSE search_filtered(index, query, limit, extensions, paths)
       IN /\ dimension' = vi.dimension
          /\ vectors' = vi.vectors
          /\ hnsw' = vi.hnsw
          /\ \E hits \in results :
                ret' = [op |-> "cli_search", query |-> query, text_only |-> text_only,
                        searcher |-> IF hybrid THEN "hybrid" ELSE "bm25",
                        auto_index |-> ~is_indexed(open_index_dir(indexes, root), root),
                        given |-> given, hits |-> hits]
    /\ UNCHANGED <<model, cache, existing, threads, root, files, index, writer,
                   vectorsJson, resolver>>

\* the command, the filters it was given not kept with the result
CliSearch(query, limit, text_only, extensions, paths, embed_ok) ==
    CliSearchNoting(query, limit, text_only, extensions, paths, embed_ok, "filters")

\* the command, the filters it was given kept with the result
CliSearchWithFilters(query, limit, text_only, f, embed_ok) ==
    CliSearchNoting(query, limit, text_only, f.extensions, f.paths, embed_ok, f)

\* ------------------------------------------------------------------------
\* The VectorIndex used directly
\* ------------------------------------------------------------------------

\* the dimension of the index in the tests of index/vector.rs
TestDim == 4
Dimensions == {TestDim, EMBEDDING_DIM}

\* the most vectors the index is given
MaxVectors == 2

\* what the callers insert: two doc_ids with the same vector and one of them
\* with another vector too, each in both lengths; and their query vectors
Inserts ==
    {[doc_id |-> i[1], embedding |-> [dim |-> d, at |-> i[2]]] :
        i \in {<< <<"d", "1">>, 1 >>, << <<"d", "2">>, 1 >>, << <<"d", "2">>, 3 >>},
        d \in Dimensions}
QueryEmbeddings == {[dim |-> d, at |-> a] : d \in Dimensions, a \in {1, 2}}

\* the index in memory
VI == [dimension |-> dimension, vectors |-> vectors, hnsw |-> hnsw]

\* what a call on the index returns, together with what the properties keep
\* of the calls before it: the number of successful inserts since the index
\* was made or cleared (`fresh` says that it was not loaded since), and the
\* index in memory when vectors.json was last saved
VecRet(op, ok, inserted, fresh, saved) ==
    [op |-> op, ok |-> ok, inserted |-> inserted, fresh |-> fresh, saved |-> saved]

InitVectorIndex ==
    /\ root = RootPlain
    /\ InitOthers
    /\ files = << >>
    /\ index = EmptyBag
    /\ writer = << >>
    /\ dimension \in Dimensions
    /\ vectors = << >>
    /\ hnsw = {}
    /\ vectorsJson = << >>
    /\ resolver = SymlinkResolver_new(TRUE)
    /\ ret = VecRet("new", TRUE, 0, TRUE, << >>)

\* VectorIndex::new(path, dim)
VecNew(dim) ==
    /\ LET vi == new(dim)
       IN /\ dimension' = vi.dimension
          /\ vectors' = vi.vectors
          /\ hnsw' = vi.hnsw
    /\ ret' = VecRet("new", TRUE, 0, TRUE, ret.saved)
    /\ UNCHANGED <<others, root, files, index, writer, vectorsJson, resolver>>

\* VectorIndex::load(path)
VecLoad ==
    /\ exists(vectorsJson)
    /\ LET vi == load(vectorsJson)
       IN /\ dimension' = vi.dimension
          /\ vectors' = vi.vectors
          /\ hnsw' = vi.hnsw
    /\ ret' = VecRet("load", TRUE, 0, FALSE, ret.saved)
    /\ UNCHANGED <<others, root, files, index, writer, vectorsJson, resolver>>

\* VectorIndex::insert(doc_id, embedding)
VecInsert(doc_id, embedding) ==
    /\ LET r == insert(dimension, vectors, hnsw, doc_id, embedding)
       IN /\ r.ok => Len(vectors) < MaxVectors
          /\ vectors' = r.vectors
          /\ hnsw' = r.hnsw
          /\ ret' = VecRet("insert", r.ok, ret.inserted + (IF r.ok THEN 1 ELSE 0),
                           ret.fresh, ret.saved)
                        @@ [id |-> r.id, embedding |-> embedding]
    /\ UNCHANGED <<others, root, files, index, writer, vectorsJson, dimension, resolver>>

\* VectorIndex::clear
VecClear ==
    /\ LET vi == clear(VI)
       IN /\ vectors' = vi.vectors
          /\ hnsw' = vi.hnsw
    /\ ret' = VecRet("clear", TRUE, 0, TRUE, ret.saved)
    /\ UNCHANGED <<others, root, files, index, writer, vectorsJson, dimension, resolver>>

\* VectorIndex::save
VecSave ==
    /\ vectorsJson' = save(VI)
    /\ ret' = VecRet("save", TRUE, ret.inserted, ret.fresh, <<VI>>)
    /\ UNCHANGED <<others, root, files, index, writer, vectors, hnsw, dimension, resolver>>

\* VectorIndex::search(query, k)
VecSearch(query, k) ==
    /\ \E r \in VectorIndex_search(VI, query, k) :
          ret' = VecRet("search", r.ok, ret.inserted, ret.fresh, ret.saved)
                    @@ [results |-> r.results]
    /\ UNCHANGED <<others, root, files, index, writer, vectors, hnsw, vectorsJson, dimension,
                   resolver>>

\* ------------------------------------------------------------------------
\* The SymlinkResolver used directly
\* ------------------------------------------------------------------------

\* the tree the resolver is used on: two regular files; links to one of them
\* by a relative target, by an absolute target and by way of another link; a
\* link to nothing; and a path at which there is nothing
TargetTxt == <<"/", "w", "/", "t", "a", "r", "g", "e", "t", ".", "t", "x", "t">>
OtherTxt == <<"/", "w", "/", "o", "t", "h", "e", "r", ".", "t", "x", "t">>
LinkTxt == <<"/", "w", "/", "l", "i", "n", "k", ".", "t", "x", "t">>
AbsTxt == <<"/", "w", "/", "a", "b", "s", ".", "t", "x", "t">>
ChainTxt == <<"/", "w", "/", "c", "h", "a", "i", "n", ".", "t", "x", "t">>
BrokenTxt == <<"/", "w", "/", "b", "r", "o", "k", "e", "n", ".", "t", "x", "t">>
GoneTxt == <<"/", "w", "/", "g", "o", "n", "e", ".", "t", "x", "t">>
ResolverTree ==
    Tree({TargetTxt, OtherTxt},
         (LinkTxt :> <<"t", "a", "r", "g", "e", "t", ".", "t", "x", "t">>) @@ (AbsTxt :> TargetTxt) @@ (ChainTxt :> <<"l", "i", "n", "k", ".", "t", "x", "t">>)
             @@ (BrokenTxt :> <<"g", "o", "n", "e", ".", "t", "x", "t">>))
ResolverPaths == {TargetTxt, OtherTxt, LinkTxt, AbsTxt, ChainTxt, BrokenTxt, GoneTxt}

\* the most Resolved results between two resets
MaxResolved == 3

InitResolver ==
    /\ root = RootPlain
    /\ InitOthers
    /\ files = << >>
    /\ index = EmptyBag
    /\ writer = << >>
    /\ vectors = << >>
    /\ hnsw = {}
    /\ vectorsJson = << >>
    /\ dimension = EMBEDDING_DIM
    /\ resolver \in {SymlinkResolver_new(follow_symlinks) : follow_symlinks \in BOOLEAN}
    /\ ret = [op |-> "new", log |-> << >>]

\* SymlinkResolver::new
ResolverNew(follow_symlinks) ==
    /\ resolver' = SymlinkResolver_new(follow_symlinks)
    /\ ret' = [op |-> "new", log |-> << >>]
    /\ UNCHANGED <<others, root, files, index, writer, vectors, hnsw, vectorsJson, dimension>>

\* SymlinkResolver::resolve(path). The result keeps, for the properties, the
\* Resolved results since the last reset (`log`), whether this path is one
\* of them (`again`) and whether the visited set was empty (`first`)
ResolvePath(path) ==
    /\ LET r == resolve(resolver, ResolverTree, path)
       IN /\ r.resolved => Len(ret.log) < MaxResolved
          /\ resolver' = r.resolver
          /\ ret' = [op |-> "resolve", path |-> path, resolved |-> r.resolved,
                     reason |-> r.reason, canonical |-> r.canonical,
                     is_symlink |-> r.is_symlink,
                     again |-> \E i \in 1..Len(ret.log) : ret.log[i].original = path,
                     first |-> resolver.visited_canonical = {},
                     log |-> IF r.resolved
                             THEN Append(ret.log, [original |-> r.original,
                                                   canonical |-> r.canonical])
                             ELSE ret.log]
    /\ UNCHANGED <<others, root, files, index, writer, vectors, hnsw, vectorsJson, dimension>>

\* SymlinkResolver::mark_visited(canonical)
MarkVisited(canonical) ==
    /\ resolver' = mark_visited(resolver, canonical)
    /\ ret' = [op |-> "mark_visited", log |-> ret.log]
    /\ UNCHANGED <<others, root, files, index, writer, vectors, hnsw, vectorsJson, dimension>>

\* SymlinkResolver::reset
ResolverReset ==
    /\ resolver' = reset(resolver)
    /\ ret' = [op |-> "reset", log |-> << >>]
    /\ UNCHANGED <<others, root, files, index, writer, vectors, hnsw, vectorsJson, dimension>>

\* ------------------------------------------------------------------------
\* The FileWalker on trees with symbolic links
\* ------------------------------------------------------------------------

WalkTarget == <<"t", "a", "r", "g", "e", "t", ".", "t", "x", "t">>
WalkOther == <<"o", "t", "h", "e", "r", ".", "t", "x", "t">>
WalkLink == <<"l", "i", "n", "k", ".", "t", "x", "t">>
WalkLink2 == <<"l", "2", ".", "t", "x", "t">>

\* the regular files and the links of the trees that are walked
WalkFileTrees ==
    {[p \in {w[1] : w \in ws} |-> (CHOOSE w \in ws : w[1] = p)[2]] :
        ws \in {ws \in SUBSET (({WalkTarget} \X {ContentFoo})
                                  \cup ({WalkOther} \X {ContentFoo, ContentFive})) :
                   \A v, w \in ws : v[1] = w[1] => v = w}}
WalkLinkTrees ==
    {[p \in {w[1] : w \in ws} |-> (CHOOSE w \in ws : w[1] = p)[2]] :
        ws \in {ws \in SUBSET (({WalkLink} \X {WalkTarget, WalkOther})
                                  \cup ({WalkLink2} \X {WalkTarget, WalkLink})) :
                   \A v, w \in ws : v[1] = w[1] => v = w}}

\* FileWalker::new on a tree; the links of the tree are kept with the result
InitWalk ==
    /\ root = RootPlain
    /\ InitOthers
    /\ files \in WalkFileTrees
    /\ index = EmptyBag
    /\ writer = << >>
    /\ vectors = << >>
    /\ hnsw = {}
    /\ vectorsJson = << >>
    /\ dimension = EMBEDDING_DIM
    /\ resolver \in {SymlinkResolver_new(follow_symlinks) : follow_symlinks \in BOOLEAN}
    /\ \E links \in WalkLinkTrees : ret = [op |-> "new", links |-> links]

\* FileWalker::new again, with the same configuration
FileWalkerNew ==
    /\ resolver' = SymlinkResolver_new(resolver.follow_symlinks)
    /\ ret' = [op |-> "new", links |-> ret.links]
    /\ UNCHANGED <<others, root, files, index, writer, vectors, hnsw, vectorsJson, dimension>>

\* FileWalker::walk, drained; `new_walker` says that it is the walker's
\* first walk
Walk(order) ==
    /\ LET w == walk(root, files, ret.links, order, resolver)
       IN /\ resolver' = w.resolver
          /\ ret' = [op |-> "walk", links |-> ret.links, order |-> order,
                     entries |-> w.entries, canonicals |-> w.canonicals,
                     new_walker |-> ret.op = "new"]
    /\ UNCHANGED <<others, root, files, index, writer, vectors, hnsw, vectorsJson, dimension>>

\* ------------------------------------------------------------------------
\* The chunker on its own
\* ------------------------------------------------------------------------

\* the longest file and the largest chunk_size given to the chunker
MaxLines == 8
MaxChunkSize == 4

\* indexer.chunk_size and indexer.chunk_overlap of IndexerConfig::default
DefaultChunkSize == 50
DefaultChunkOverlap == 10
\* a file of 120 lines under the default configuration
ExampleInput ==
    [n |-> 120, chunk_size |-> DefaultChunkSize, chunk_overlap |-> DefaultChunkOverlap]

\* a file of n lines "x", with or without a newline after the last line
FileOfLines(n, trailing) ==
    LET len == IF n = 0 THEN 0 ELSE IF trailing THEN 2 * n ELSE 2 * n - 1
    IN [i \in 1..len |-> IF i % 2 = 1 THEN "x" ELSE NL]

\* a file of n empty lines
EmptyLines(n) == [i \in 1..n |-> NL]

\* what the chunker is called with: a file and the number of its lines,
\* chunk_size and chunk_overlap (below chunk_size)
ChunkerInputs ==
    {[n |-> n, chunk_size |-> w, chunk_overlap |-> o, content |-> FileOfLines(n, t)] :
        n \in 0..MaxLines, w \in 1..MaxChunkSize, o \in 0..(MaxChunkSize - 1),
        t \in BOOLEAN}
    \cup {ExampleInput @@ [content |-> EmptyLines(ExampleInput.n)]}

InitChunker ==
    /\ root = RootPlain
    /\ InitOthers
    /\ files = << >>
    /\ index = EmptyBag
    /\ writer = << >>
    /\ vectors = << >>
    /\ hnsw = {}
    /\ vectorsJson = << >>
    /\ dimension = EMBEDDING_DIM
    /\ resolver = SymlinkResolver_new(TRUE)
    /\ \E in \in {i \in ChunkerInputs : i.chunk_overlap < i.chunk_size} :
            ret = [op |-> "chunk_input"] @@ in

\* Indexer::index_chunks on the file
IndexChunks ==
    /\ ret.op = "chunk_input"
    /\ ret' = [ret EXCEPT !.op = "index_chunks"]
                 @@ [chunks |-> index_chunks_with(ret.chunk_size, ret.chunk_overlap,
                                                  ret.content, Hex16(xxh3_64(ret.content)),
                                                  PathA)]
    /\ UNCHANGED <<others, root, files, index, writer, vectors, hnsw, vectorsJson, dimension,
                   resolver>>

\* ------------------------------------------------------------------------
\* watcher/mod.rs
\* ------------------------------------------------------------------------

\* Path::starts_with: by whole components
PathStartsWith(path, base) == path = base \/ StartsWith(path, base \o <<"/">>)

\* watcher is_hidden: some component of the path starts with "."
watcher_is_hidden(path) ==
    \E i \in 1..Len(path) : path[i] = "." /\ (i = 1 \/ path[i - 1] = "/")

\* IGNORED_DIRS of is_ignored_dir, those the model can spell
IGNORED_DIRS ==
    { <<"t", "m", "p">>, <<"l", "o", "g", "s">>, <<"c", "a", "c", "h", "e">> }

\* watcher is_ignored_dir: some component of the path is in IGNORED_DIRS
\* whether `name` is one of the components of the path
HasComponent(path, name) ==
    \E i \in 1..(Len(path) - Len(name) + 1) :
        /\ SubSeq(path, i, i + Len(name) - 1) = name
        /\ (i = 1 \/ path[i - 1] = "/")
        /\ (i + Len(name) > Len(path) \/ path[i + Len(name)] = "/")

is_ignored_dir(path) == \E name \in IGNORED_DIRS : HasComponent(path, name)

\* Path::is_file, Path::is_dir at the time of the callback
IsFile(fs, ws_root, path) ==
    /\ StartsWith(path, ws_root \o <<"/">>)
    /\ StripPrefix(path, ws_root) \in DOMAIN fs

IsDir(fs, ws_root, path) ==
    \/ path = ws_root
    \/ \E rel \in DOMAIN fs : StartsWith(PathJoin(ws_root, rel), path \o <<"/">>)

WatchEvent(kind, path) == [kind |-> kind, path |-> path]

\* the match on event.kind of process_notify_event, for one path that passed
\* the filters
MatchKind(kind, path, fs, ws_root) ==
    CASE kind = "Create" ->
            IF IsDir(fs, ws_root, path) THEN <<WatchEvent("DirCreated", path)>>
            ELSE IF IsFile(fs, ws_root, path) THEN <<WatchEvent("Changed", path)>>
            ELSE << >>
      [] kind = "Modify" ->
            IF IsFile(fs, ws_root, path) THEN <<WatchEvent("Changed", path)>> ELSE << >>
      [] kind = "Remove" -> <<WatchEvent("Deleted", path)>>
      [] OTHER -> << >>

\* the paths notify reports: under /w the file a.rs, the directory s, files
\* under the directories var and tmp, a hidden file and a log file; a file
\* under /o, which is outside the workspace
WatchedA == PathJoin(RootPlain, PathA)
WatchedDir == PathJoin(RootPlain, <<"s">>)
UnderVar == PathJoin(RootPlain, <<"v", "a", "r", "/", "a", ".", "r", "s">>)
UnderTmp == PathJoin(RootPlain, <<"t", "m", "p", "/", "a", ".", "r", "s">>)
HiddenFile == PathJoin(RootPlain, PathHidden)
LogFile == PathJoin(RootPlain, <<"x", ".", "l", "o", "g">>)
OutsideDir == <<"/", "o">>
OutsideFile == PathJoin(OutsideDir, PathA)

NotifyPaths ==
    {WatchedA, WatchedDir, UnderVar, UnderTmp, HiddenFile, LogFile, OutsideFile}

\* the three filters of process_notify_event that read the path alone:
\* is_hidden, is_ignored_dir, matches_ignore_pattern
IsFilteredPath(path) ==
    IF watcher_is_hidden(path) THEN TRUE
    ELSE IF is_ignored_dir(path) THEN TRUE
    ELSE matches_ignore_pattern(path)

\* the paths of the model that these filters drop (computed once)
FilteredPaths == {path \in NotifyPaths : IsFilteredPath(path)} \cup {}

\* the loop `for path in &event.paths` of process_notify_event, from path i
RECURSIVE ProcessPaths(_, _, _, _, _)
ProcessPaths(event, i, watched_paths, fs, ws_root) ==
    IF i > Len(event.paths) THEN << >>
    ELSE LET path == event.paths[i]
             is_under_watched == \E wp \in watched_paths : PathStartsWith(path, wp)
             here ==
                IF ~is_under_watched THEN << >>
                ELSE IF path \in FilteredPaths THEN << >>
                ELSE MatchKind(event.kind, path, fs, ws_root)
         IN here \o ProcessPaths(event, i + 1, watched_paths, fs, ws_root)

process_notify_event(event, watched_paths, fs, ws_root) ==
    ProcessPaths(event, 1, watched_paths, fs, ws_root)

\* what process_notify_event returns for the events of a batch, in order
RECURSIVE ProcessBatch(_, _, _, _)
ProcessBatch(events, watched_paths, fs, ws_root) ==
    IF events = << >> THEN << >>
    ELSE process_notify_event(events[1], watched_paths, fs, ws_root)
            \o ProcessBatch(Tail(events), watched_paths, fs, ws_root)

\* a callback with one `seen` set for both kinds (mutant)
RECURSIVE SendDeduplicated_one_set(_, _, _)
SendDeduplicated_one_set(es, seen_changed, seen_deleted) ==
    IF es = << >> THEN << >>
    ELSE LET e == es[1]
             seen == seen_changed \cup seen_deleted
         IN IF e.kind \in {"Changed", "Deleted"}
            THEN (IF e.path \in seen THEN << >> ELSE <<e>>)
                    \o SendDeduplicated_one_set(Tail(es), seen \cup {e.path}, seen_deleted)
            ELSE <<e>> \o SendDeduplicated_one_set(Tail(es), seen_changed, seen_deleted)

\* the sends of the debouncer callback on the watch events of one batch:
\* seen_changed and seen_deleted are local to the call
RECURSIVE SendDeduplicated(_, _, _)
SendDeduplicated(es, seen_changed, seen_deleted) ==
    IF es = << >> THEN << >>
    ELSE LET e == es[1]
         IN IF e.kind = "Changed"
            THEN (IF e.path \in seen_changed THEN << >> ELSE <<e>>)
                    \o SendDeduplicated(Tail(es), seen_changed \cup {e.path}, seen_deleted)
            ELSE IF e.kind = "Deleted"
            THEN (IF e.path \in seen_deleted THEN << >> ELSE <<e>>)
                    \o SendDeduplicated(Tail(es), seen_changed, seen_deleted \cup {e.path})
            ELSE <<e>> \o SendDeduplicated(Tail(es), seen_changed, seen_deleted)

NotifyEvent(kind, paths) == [kind |-> kind, paths |-> paths]

\* the debounced events of the model. The first has a file and a directory
\* as its paths; each path of the last but the one under var is met by one
\* of the filters
NotifyEvents ==
    { NotifyEvent("Create", <<WatchedA, WatchedDir>>),
      NotifyEvent("Modify", <<WatchedA>>),
      NotifyEvent("Remove", <<WatchedA>>),
      NotifyEvent("Remove", <<UnderVar, UnderTmp, HiddenFile, LogFile, OutsideFile>>) }

\* the longest batch the debouncer hands to the callback
MaxBatch == 3

Batches == UNION {[1..n -> NotifyEvents] : n \in 1..MaxBatch}

\* FileWatcher::new on /w, which holds s/b.rs and no symbolic link:
\* find_symlink_targets returns nothing, the root is the one watched path
InitWatcher ==
    /\ root = RootPlain
    /\ InitOthers
    /\ files = [rel \in {PathB} |-> ContentFoo]
    /\ index = EmptyBag
    /\ writer = << >>
    /\ vectors = << >>
    /\ hnsw = {}
    /\ vectorsJson = << >>
    /\ dimension = EMBEDDING_DIM
    /\ resolver = SymlinkResolver_new(TRUE)
    /\ ret = [op |-> "watcher_new", watched_paths |-> {root},
              sent |-> << >>, yielded |-> {}, dropped |-> 0, again |-> FALSE]

\* the debouncer callback on Ok(events): everything it sends for the batch.
\* Kept with the result: the events process_notify_event yielded, how many of
\* them were not sent, and whether the batch before sent Changed(/w/a.rs) as
\* this one does.
Debounced(events) ==
    /\ ret.op \in {"watcher_new", "debounced", "debounce_error"}
    /\ LET watch_events == ProcessBatch(events, ret.watched_paths, files, root)
           sent == SendDeduplicated(watch_events, {}, {})
       IN ret' = [op |-> "debounced", watched_paths |-> ret.watched_paths,
                  sent |-> sent, yielded |-> SeqToSet(watch_events),
                  dropped |-> Len(watch_events) - Len(sent),
                  again |-> WatchEvent("Changed", WatchedA)
                                \in SeqToSet(sent) \cap SeqToSet(ret.sent)]
    /\ UNCHANGED <<others, root, files, index, writer, vectors, hnsw, vectorsJson, dimension, resolver>>

\* the debouncer callback on Err(errors), one error
DebounceError ==
    /\ ret.op \in {"watcher_new", "debounced", "debounce_error"}
    /\ ret' = [op |-> "debounce_error", watched_paths |-> ret.watched_paths,
               sent |-> <<WatchEvent("Error", << >>)>>, yielded |-> {}, dropped |-> 0,
               again |-> FALSE]
    /\ UNCHANGED <<others, root, files, index, writer, vectors, hnsw, vectorsJson, dimension, resolver>>

\* a file of the watched tree is written or removed; the watcher keeps what
\* it holds
WatchedWrite(rel, content) ==
    /\ files' = [p \in DOMAIN files \cup {rel} |-> IF p = rel THEN content ELSE files[p]]
    /\ UNCHANGED <<others, root, index, writer, vectors, hnsw, vectorsJson, dimension, resolver, ret>>

WatchedRemove(rel) ==
    /\ rel \in DOMAIN files
    /\ files' = [p \in DOMAIN files \ {rel} |-> files[p]]
    /\ UNCHANGED <<others, root, index, writer, vectors, hnsw, vectorsJson, dimension, resolver, ret>>

\* ------------------------------------------------------------------------
\* embeddings/model.rs: the lazily loaded model, called from several threads

\* the second look at the Option, with the write lock held
\* (mutant: the second look is left out)
double_check_forgotten(guard) == FALSE

\* ensure_loaded, `if let Some(ref model) = *guard` (both looks)
double_check(guard) == guard # << >>

\* the thread's record after a step of its call
Moved(t, rec) == [threads EXCEPT ![t] = rec]

\* embed(text): the call enters ensure_loaded
EmbedCall(t) ==
    /\ threads[t].at = "idle"
    /\ threads' = Moved(t, [ThreadIdle EXCEPT !.at = "fast", !.op = "embed"])
    /\ UNCHANGED <<root, files, index, writer, vectors, hnsw, vectorsJson, dimension,
                   resolver, ret, model, cache, indexes, existing>>

\* embed_batch(texts): no text, no load; else the call enters ensure_loaded
EmbedBatch(t, texts_is_empty) ==
    /\ threads[t].at = "idle"
    /\ threads' = Moved(t, [ThreadIdle EXCEPT
                              !.at = IF texts_is_empty THEN "done" ELSE "fast",
                              !.op = "embed_batch",
                              !.via = IF texts_is_empty THEN "empty" ELSE "none"])
    /\ UNCHANGED <<root, files, index, writer, vectors, hnsw, vectorsJson, dimension,
                   resolver, ret, model, cache, indexes, existing>>

\* ensure_loaded, the fast path: self.model.read() waits while a writer holds
\* the lock; the guard is dropped at the end of the block
FastPath(t) ==
    /\ threads[t].at = "fast"
    /\ model.writer = 0
    /\ threads' = Moved(t, IF double_check(model.guard)
                           THEN [threads[t] EXCEPT !.at = "done", !.got = model.guard,
                                                   !.via = "fast"]
                           ELSE [threads[t] EXCEPT !.at = "slow"])
    /\ UNCHANGED <<root, files, index, writer, vectors, hnsw, vectorsJson, dimension,
                   resolver, ret, model, cache, indexes, existing>>

\* ensure_loaded, self.model.write(): waits while another writer holds the lock
WriteLock(t) ==
    /\ threads[t].at = "slow"
    /\ model.writer = 0
    /\ model' = [model EXCEPT !.writer = t]
    /\ threads' = Moved(t, [threads[t] EXCEPT !.at = "locked"])
    /\ UNCHANGED <<root, files, index, writer, vectors, hnsw, vectorsJson, dimension,
                   resolver, ret, cache, indexes, existing>>

\* ensure_loaded, the double check: a model loaded meanwhile is returned and
\* the write guard dropped
DoubleCheck(t) ==
    /\ threads[t].at = "locked"
    /\ IF double_check(model.guard)
       THEN /\ threads' = Moved(t, [threads[t] EXCEPT !.at = "done", !.got = model.guard,
                                                      !.via = "double_check"])
            /\ model' = [model EXCEPT !.writer = 0]
       ELSE /\ threads' = Moved(t, [threads[t] EXCEPT !.at = "loading"])
            /\ UNCHANGED model
    /\ UNCHANGED <<root, files, index, writer, vectors, hnsw, vectorsJson, dimension,
                   resolver, ret, cache, indexes, existing>>

\* ensure_loaded, TextEmbedding::try_new: on success the new Arc (named by the
\* count of loads) is published and returned, on failure `?` returns the
\* error; either way the write guard is dropped
TryNew(t, ok) ==
    /\ threads[t].at = "loading"
    /\ IF ok
       THEN /\ model' = [guard |-> <<model.loads + 1>>, writer |-> 0,
                         loads |-> model.loads + 1]
            /\ threads' = Moved(t, [threads[t] EXCEPT !.at = "done",
                                                      !.got = <<model.loads + 1>>,
                                                      !.via = "load"])
       ELSE /\ model' = [model EXCEPT !.writer = 0]
            /\ threads' = Moved(t, [threads[t] EXCEPT !.at = "done", !.via = "error"])
    /\ UNCHANGED <<root, files, index, writer, vectors, hnsw, vectorsJson, dimension,
                   resolver, ret, cache, indexes, existing>>

\* embed / embed_batch returns: the thread's Arc is dropped
EmbedReturn(t) ==
    /\ threads[t].at = "done"
    /\ threads' = Moved(t, ThreadIdle)
    /\ UNCHANGED <<root, files, index, writer, vectors, hnsw, vectorsJson, dimension,
                   resolver, ret, model, cache, indexes, existing>>

\* ------------------------------------------------------------------------
\* lib.rs: full index passes of several threads on one Workspace, step by step

\* the VectorIndex of the workspace as it is now
CurrentVI == [dimension |-> dimension, vectors |-> vectors, hnsw |-> hnsw]

\* the positions of a pass after Indexer::new succeeded
HoldsIndexer == {"phase1", "phase2", "save", "meta"}

\* index_all_with_options, line 112: the pass begins with vector_index.clear()
PassBegin(t, with_embeddings) ==
    /\ threads[t].at = "idle"
    /\ vectors' = clear(CurrentVI).vectors
    /\ hnsw' = clear(CurrentVI).hnsw
    /\ threads' = Moved(t, [at |-> "new_indexer", op |-> "index_all",
                            with_embeddings |-> with_embeddings, batch |-> << >>,
                            stats |-> << >>])
    /\ UNCHANGED <<root, files, index, writer, vectorsJson, dimension, resolver, ret,
                   model, cache, indexes, existing>>

\* index_all_with_options, lines 115-119: Indexer::new asks the index for its
\* single writer; while another indexer lives the call fails and `?` returns
\* the error
PassIndexerNew(t) ==
    /\ threads[t].at = "new_indexer"
    /\ IF writer = << >>
       THEN /\ writer' = <<index>>
            /\ threads' = Moved(t, [threads[t] EXCEPT !.at = "phase1"])
            /\ UNCHANGED ret
       ELSE /\ threads' = Moved(t, ThreadIdle)
            /\ ret' = [op |-> "index_all", thread |-> t, res |-> "Err"]
            /\ UNCHANGED writer
    /\ UNCHANGED <<root, files, index, vectors, hnsw, vectorsJson, dimension, resolver,
                   model, cache, indexes, existing>>

\* index_all_with_options, lines 121-157: phase 1, the walk, index_file of
\* every entry and the commit; the texts to embed stay with the thread
PassPhase1(t, order) ==
    /\ threads[t].at = "phase1"
    /\ LET w == walk(root, files, NoLinks, order, SymlinkResolver_new(FollowSymlinks))
           start == [docs |-> writer[1], indexed |-> 0, skipped |-> 0, errors |-> 0,
                     embedding_batch |-> << >>]
           done == IndexEntries(start, files, root, w.entries,
                                threads[t].with_embeddings)
       IN /\ writer' = <<done.docs>>
          /\ index' = done.docs
          /\ threads' = Moved(t, [threads[t] EXCEPT
                 !.at = "phase2",
                 !.batch = done.embedding_batch,
                 !.stats = <<[indexed |-> done.indexed, skipped |-> done.skipped,
                              errors |-> done.errors,
                              unique_paths |->
                                  Cardinality(w.resolver.visited_canonical)]>>])
    /\ UNCHANGED <<root, files, vectors, hnsw, vectorsJson, dimension, resolver, ret,
                   model, cache, indexes, existing>>

\* index_all_with_options, lines 160-206: phase 2, the batches are embedded
\* and inserted into the vector index
PassEmbed(t, batch_ok) ==
    /\ threads[t].at = "phase2"
    /\ LET filtered_batch ==
               SelectSeq(threads[t].batch,
                         LAMBDA e : Len(e[2]) >= MinEmbedLen /\ Len(e[2]) <= MaxEmbedLen)
           embed == threads[t].with_embeddings /\ threads[t].batch # << >>
                        /\ filtered_batch # << >>
           vi == IF embed THEN EmbedBatches(CurrentVI, filtered_batch, 1, batch_ok)
                 ELSE CurrentVI
       IN /\ vectors' = vi.vectors
          /\ hnsw' = vi.hnsw
          /\ threads' = Moved(t, [threads[t] EXCEPT
                                      !.at = IF embed THEN "save" ELSE "meta"])
    /\ UNCHANGED <<root, files, index, writer, vectorsJson, dimension, resolver, ret,
                   model, cache, indexes, existing>>

\* index_all_with_options, line 209: vector_index.save()
PassSave(t) ==
    /\ threads[t].at = "save"
    /\ vectorsJson' = save(CurrentVI)
    /\ threads' = Moved(t, [threads[t] EXCEPT !.at = "meta"])
    /\ UNCHANGED <<root, files, index, writer, vectors, hnsw, dimension, resolver, ret,
                   model, cache, indexes, existing>>

\* index_all_with_options, lines 213-231: workspace.json is written, the
\* statistics are returned and the indexer is dropped
PassReturn(t) ==
    /\ threads[t].at = "meta"
    /\ indexes' = [h \in DOMAIN indexes \cup {hash_path(root)} |->
                       IF h = hash_path(root) THEN WorkspaceJson(root) ELSE indexes[h]]
    /\ writer' = << >>
    /\ ret' = [op |-> "index_all", thread |-> t, res |-> "Ok",
               with_embeddings |-> threads[t].with_embeddings,
               stats |-> threads[t].stats[1]]
    /\ threads' = Moved(t, ThreadIdle)
    /\ UNCHANGED <<root, files, index, vectors, hnsw, vectorsJson, dimension, resolver,
                   model, cache, existing>>

\* ------------------------------------------------------------------------
\* embeddings/cache.rs: the LRU cache of embeddings

\* the capacity of the LruCache, in entries (the code's is at least 100)
CacheCapacity == 2

\* the texts whose embeddings are cached, one key each
CacheTexts == {ContentFoo, ContentLate, ContentBar}

\* the threads that call get_or_insert on the one cache
CacheCallers == {1, 2}

\* what a compute closure may return for a text: the model's embedding, or
\* (looked at for one of the texts) the zero vector of a failed embed
\* (hybrid.rs 134-136)
CacheValues(text) ==
    IF text = ContentFoo THEN {Embed(text), ZeroEmbedding} ELSE {Embed(text)}

\* the position of a key in the entries, 0 if it is not there
KeyIndex(entries, key) ==
    IF \E i \in 1..Len(entries) : entries[i].key = key
    THEN CHOOSE i \in 1..Len(entries) : entries[i].key = key
    ELSE 0

\* the entries without position i
WithoutIndex(entries, i) ==
    [j \in 1..(Len(entries) - 1) |-> IF j < i THEN entries[j] ELSE entries[j + 1]]

\* a lookup that never finds its key (mutant)
LruGet_always_misses(entries, key) == [found |-> FALSE, entries |-> entries]

\* LruCache::get: a hit makes the entry the most recently used
LruGet(entries, key) ==
    LET i == KeyIndex(entries, key)
    IN IF i = 0 THEN [found |-> FALSE, entries |-> entries]
       ELSE [found |-> TRUE, value |-> entries[i].value,
             entries |-> Append(WithoutIndex(entries, i), entries[i])]

\* LruCache::put: the value of a key that is there is replaced; a new key at
\* capacity pushes out the least recently used entry
LruPut(entries, key, value) ==
    LET i == KeyIndex(entries, key)
        e == [key |-> key, value |-> value]
    IN IF i # 0 THEN [entries |-> Append(WithoutIndex(entries, i), e), evicted |-> {}]
       ELSE IF Len(entries) >= CacheCapacity
       THEN [entries |-> Append(Tail(entries), e), evicted |-> {entries[1].key}]
       ELSE [entries |-> Append(entries, e), evicted |-> {}]

\* kept with the last result, for the properties: the (key, value) pairs that
\* get_or_insert returned and whose key was neither evicted nor cleared
\* since (returned), and those that no put replaced since either (kept)
Returned == IF "returned" \in DOMAIN ret THEN ret.returned ELSE {}
Kept == IF "kept" \in DOMAIN ret THEN ret.kept ELSE {}

WithoutKeys(pairs, keys) == {p \in pairs : p[1] \notin keys}

ValuesOf(pairs, key) == {p[2] : p \in {q \in pairs : q[1] = key}}

\* EmbeddingCache::get(text)
CacheGet(text) ==
    /\ LET key == xxh3_64(text)
           g == LruGet(cache, key)
       IN /\ cache' = g.entries
          /\ ret' = [op |-> "get", hit |-> g.found,
                     returned |-> Returned, kept |-> Kept]
    /\ UNCHANGED <<root, files, index, writer, vectors, hnsw, vectorsJson, dimension,
                   resolver, model, indexes, existing, threads>>

\* EmbeddingCache::insert(text, embedding)
CacheInsert(text, embedding) ==
    /\ LET key == xxh3_64(text)
           p == LruPut(cache, key, embedding)
       IN /\ cache' = p.entries
          /\ ret' = [op |-> "insert",
                     returned |-> WithoutKeys(Returned, p.evicted),
                     kept |-> WithoutKeys(Kept, p.evicted \cup {key})]
    /\ UNCHANGED <<root, files, index, writer, vectors, hnsw, vectorsJson, dimension,
                   resolver, model, indexes, existing, threads>>

\* EmbeddingCache::get_or_insert(text, compute), up to the call of compute:
\* self.get(text) locks the cache, and a hit is returned; the result keeps
\* the values that earlier calls returned for the key
GetOrInsert(t, text) ==
    /\ threads[t].at = "idle"
    /\ LET key == xxh3_64(text)
           g == LruGet(cache, key)
       IN /\ cache' = g.entries
          /\ threads' = IF g.found THEN threads
                        ELSE Moved(t, [at |-> "compute", op |-> "get_or_insert",
                                       text |-> text])
          /\ ret' = [op |-> "get_or_insert", key |-> key, hit |-> g.found,
                     computed |-> ~g.found,
                     value |-> IF g.found THEN <<g.value>> ELSE << >>,
                     promised |-> ValuesOf(Returned, key),
                     promised_kept |-> ValuesOf(Kept, key),
                     returned |-> Returned \cup (IF g.found THEN {<<key, g.value>>} ELSE {}),
                     kept |-> Kept \cup (IF g.found THEN {<<key, g.value>>} ELSE {})]
    /\ UNCHANGED <<root, files, index, writer, vectors, hnsw, vectorsJson, dimension,
                   resolver, model, indexes, existing>>

\* EmbeddingCache::get_or_insert after a miss: compute() gives the embedding,
\* self.insert locks the cache again and puts it, and it is returned
GetOrInsertComputed(t, embedding) ==
    /\ threads[t].at = "compute"
    /\ embedding \in CacheValues(threads[t].text)
    /\ LET key == xxh3_64(threads[t].text)
           p == LruPut(cache, key, embedding)
       IN /\ cache' = p.entries
          /\ ret' = [op |-> "get_or_insert_computed", value |-> <<embedding>>,
                     returned |-> WithoutKeys(Returned, p.evicted)
                                      \cup {<<key, embedding>>},
                     kept |-> WithoutKeys(Kept, p.evicted \cup {key})
                                  \cup {<<key, embedding>>}]
    /\ threads' = Moved(t, ThreadIdle)
    /\ UNCHANGED <<root, files, index, writer, vectors, hnsw, vectorsJson, dimension,
                   resolver, model, indexes, existing>>

\* EmbeddingCache::clear
CacheClear ==
    /\ cache' = << >>
    /\ ret' = [op |-> "clear", returned |-> {}, kept |-> {}]
    /\ UNCHANGED <<root, files, index, writer, vectors, hnsw, vectorsJson, dimension,
                   resolver, model, indexes, existing, threads>>

\* ------------------------------------------------------------------------
\* ygrep-cli commands/indexes.rs: the registry of indexes

\* a workspace.json that is no JSON, and one without a string under "workspace"
BrokenJson == <<[json |-> FALSE, workspace |-> << >>]>>
JsonWithoutWorkspace == <<[json |-> TRUE, workspace |-> << >>]>>

\* read_index_info: the workspace of an index directory, << >> (None) if
\* workspace.json is missing, does not parse or has no string "workspace"
read_index_info(file) ==
    IF file = << >> THEN << >>
    ELSE IF ~file[1].json THEN << >>
    ELSE file[1].workspace

\* an index of unknown workspace is kept (mutant)
should_remove_keeps_unknown(workspace, dirs) ==
    IF workspace = << >> THEN FALSE ELSE workspace[1] \notin dirs

\* clean, should_remove: the workspace is unknown or its path does not exist
should_remove(workspace, dirs) ==
    IF workspace = << >> THEN TRUE ELSE workspace[1] \notin dirs

\* no remove_dir_all fails
NoFailure == << >>

\* clean: the directories are met in the order of read_dir; remove_dir_all of
\* the directory `fail` fails and `?` ends the command there. An index
\* directory that is removed takes its inverted index and its vectors.json
\* along.
Clean(order, fail) ==
    /\ LET doomed(i) == should_remove(read_index_info(indexes[order[i]]), existing)
           stops == {i \in 1..Len(order) : doomed(i) /\ order[i] = fail}
           first == IF stops = {} THEN Len(order) + 1
                    ELSE CHOOSE i \in stops : \A j \in stops : i <= j
           removed == {order[i] : i \in {j \in 1..Len(order) : j < first /\ doomed(j)}}
       IN /\ indexes' = [h \in DOMAIN indexes \ removed |-> indexes[h]]
          /\ index' = IF hash_path(root) \in removed THEN EmptyBag ELSE index
          /\ vectorsJson' = IF hash_path(root) \in removed THEN << >> ELSE vectorsJson
          /\ ret' = [op |-> "clean", res |-> IF stops = {} THEN "Ok" ELSE "Err",
                     removed |-> removed, before |-> indexes]
    /\ UNCHANGED <<root, files, writer, vectors, hnsw, dimension, resolver,
                   model, cache, existing, threads>>

\* a workspace at ws is opened by another run: its index directory is made
\* (lib.rs 62-64) and, with fully, a full pass writes workspace.json
\* (lib.rs 215-224)
OpenElsewhere(ws, fully) ==
    /\ ws \in existing
    /\ indexes' = [h \in DOMAIN indexes \cup {hash_path(ws)} |->
                       IF h # hash_path(ws) THEN indexes[h]
                       ELSE IF fully THEN WorkspaceJson(ws)
                       ELSE IF h \in DOMAIN indexes THEN indexes[h] ELSE << >>]
    /\ ret' = Idle
    /\ UNCHANGED <<root, files, index, writer, vectors, hnsw, vectorsJson, dimension,
                   resolver, model, cache, existing, threads>>

\* the workspace.json of an index directory is overwritten from outside
DamageJson(h, file) ==
    /\ h \in DOMAIN indexes
    /\ indexes' = [indexes EXCEPT ![h] = file]
    /\ ret' = Idle
    /\ UNCHANGED <<root, files, index, writer, vectors, hnsw, vectorsJson, dimension,
                   resolver, model, cache, existing, threads>>

\* a workspace directory is removed or made (outside the program)
RemoveWorkspace(ws) ==
    /\ ws \in existing
    /\ existing' = existing \ {ws}
    /\ ret' = Idle
    /\ UNCHANGED <<root, files, index, writer, vectors, hnsw, vectorsJson, dimension,
                   resolver, model, cache, indexes, threads>>

MakeWorkspace(ws) ==
    /\ ws \notin existing
    /\ existing' = existing \cup {ws}
    /\ ret' = Idle
    /\ UNCHANGED <<root, files, index, writer, vectors, hnsw, vectorsJson, dimension,
                   resolver, model, cache, indexes, threads>>

\* ------------------------------------------------------------------------
\* search/searcher.rs: the filtered search with what it collected

\* the documents of the index that the literal filter accepts
LiteralMatching(docs, query) == {c \in Copies(docs) : LiteralMatch(c[1].content, query)}

\* Searcher::search_filtered(query, limit, filters); the result keeps the
\* hits that Searcher::search handed over before the filters (collected) and
\* the number of documents that hold the query
SearchFiltered(query, limit, extensions, paths) ==
    /\ writer = << >>
    /\ \E r \in Searcher_search(index, query, FilteredAsked(limit)) :
         ret' = [op |-> "search_filtered", query |-> query, limit |-> limit,
                 extensions |-> extensions, paths |-> paths,
                 collected |-> r.hits,
                 matching |-> Cardinality(LiteralMatching(index, query)),
                 hits |-> Take(RetainFiltered(r.hits, extensions, paths),
                               EffectiveLimit(limit))]
    /\ UNCHANGED <<others, root, files, index, writer, vectors, hnsw, vectorsJson,
                   dimension, resolver>>

\* the files of the workspaces the filtered search runs on
WritesFiltered == {<<PathA, ContentLate>>, <<PathB, ContentFoo>>}

\* ------------------------------------------------------------------------
\* fs/walker.rs: glob_match on its own

\* the patterns glob_match is looked at with, one or two of each form
GlobPatterns ==
    { <<"*", "*", "/", "t", "m", "p", "/", "*", "*">>,
      <<"*", "*", "/", "*", ".", "l", "o", "g">>,
      <<"*", ".", "l", "o", "g">>,
      <<"*", "*", "/", "l", "o", "g">>,
      <<"*", "*", "/", "c", ".", "l", "o", "g">>,
      <<"t", "m", "p", "/", "*", "*">>,
      <<"l", "o", "g">>,
      <<"c", ".", "l", "o", "g">> }

\* the file paths, relative (as in test_glob_match) and absolute (as the walk
\* hands them over)
GlobPaths ==
    { <<"a", "/", "b", "/", "c", ".", "l", "o", "g">>,
      <<"a", "/", "b", "/", "l", "o", "g">>,
      <<"c", ".", "l", "o", "g">>,
      <<"l", "o", "g">>,
      <<"l", "o", "g", "/", "a">>,
      <<"a", "/", "l", "o", "g", "/", "b">>,
      <<"a", "/", "x", "l", "o", "g">>,
      <<"t", "m", "p", "/", "a">>,
      <<"a", "/", "t", "m", "p", "/", "b">>,
      <<"a", "/", "t", "m", "p">>,
      <<"t", "m", "p">>,
      <<"a", "/", "t", "m", "p", "x", "/", "b">>,
      <<"t", "m", "p", "x", "/", "b">>,
      <<"/", "w", "/", "t", "m", "p", "/", "a">>,
      <<"/", "w", "/", "a", ".", "r", "s">>,
      <<"/", "w", "/", "c", ".", "l", "o", "g">> }

\* a pattern and a path for glob_match
InitGlob ==
    /\ root = RootPlain
    /\ InitOthers
    /\ files = << >>
    /\ index = EmptyBag
    /\ writer = << >>
    /\ vectors = << >>
    /\ hnsw = {}
    /\ vectorsJson = << >>
    /\ dimension = EMBEDDING_DIM
    /\ resolver = SymlinkResolver_new(TRUE)
    /\ \E pattern \in GlobPatterns, path \in GlobPaths :
            ret = [op |-> "glob_input", pattern |-> pattern, path |-> path]

\* glob_match(pattern, path)
GlobMatch ==
    /\ ret.op = "glob_input"
    /\ ret' = [op |-> "glob_match", pattern |-> ret.pattern, path |-> ret.path,
               matched |-> glob_match(ret.pattern, ret.path)]
    /\ UNCHANGED <<others, root, files, index, writer, vectors, hnsw, vectorsJson,
                   dimension, resolver>>

\* ------------------------------------------------------------------------
\* index/vector.rs: insert, search and clear of several threads on one index,
\* lock by lock. Who holds a lock follows from where the threads stand.

\* self.vectors is write-locked by a thread between the two locks of insert
VectorsWriters == {t \in Threads : threads[t].at = "insert_hnsw"}

\* self.hnsw is write-locked by a thread between the two locks of clear, and
\* read-locked by a thread between the two locks of search
HnswWriters == {t \in Threads : threads[t].at = "clear_vectors"}
HnswReaders == {t \in Threads : threads[t].at = "search_vectors"}

\* parking_lot RwLock: write() waits for every other holder, read() for a writer
CanWriteVectors == VectorsWriters = {}
CanReadVectors == VectorsWriters = {}
CanWriteHnsw == HnswWriters = {} /\ HnswReaders = {}
CanReadHnsw == HnswWriters = {}

\* the one vector the threads insert and search for
LockedEmbedding == Embed(ContentFoo)

\* insert(doc_id, embedding), lines 95-100: the dimension check
InsertCall(t, doc_id, embedding) ==
    /\ threads[t].at = "idle"
    /\ Len(vectors) + Cardinality({u \in Threads : threads[u].at = "insert_vectors"})
           < MaxVectors
    /\ IF embedding.dim # dimension
       THEN /\ ret' = [op |-> "insert", thread |-> t, ok |-> FALSE]
            /\ UNCHANGED threads
       ELSE /\ threads' = Moved(t, [at |-> "insert_vectors", op |-> "insert",
                                    doc_id |-> doc_id, embedding |-> embedding])
            /\ UNCHANGED ret
    /\ UNCHANGED <<root, files, index, writer, vectors, hnsw, vectorsJson, dimension,
                   resolver, model, cache, indexes, existing>>

\* insert, lines 102-109: self.vectors.write(), the id, the push
InsertVectorsLocked(t) ==
    /\ threads[t].at = "insert_vectors"
    /\ CanWriteVectors
    /\ vectors' = Append(vectors, [doc_id |-> threads[t].doc_id,
                                   vector |-> threads[t].embedding])
    /\ threads' = Moved(t, [threads[t] EXCEPT !.at = "insert_hnsw"]
                               @@ [id |-> Len(vectors)])
    /\ UNCHANGED <<root, files, index, writer, hnsw, vectorsJson, dimension,
                   resolver, ret, model, cache, indexes, existing>>

\* insert, lines 112-115: self.hnsw.write() with the vectors still locked,
\* the point is put into the graph, both guards are dropped
InsertHnswLocked(t) ==
    /\ threads[t].at = "insert_hnsw"
    /\ CanWriteHnsw
    /\ hnsw' = hnsw \cup {[d_id |-> threads[t].id, vector |-> threads[t].embedding]}
    /\ ret' = [op |-> "insert", thread |-> t, ok |-> TRUE, id |-> threads[t].id]
    /\ threads' = Moved(t, ThreadIdle)
    /\ UNCHANGED <<root, files, index, writer, vectors, vectorsJson, dimension,
                   resolver, model, cache, indexes, existing>>

\* search(query, k), lines 122-127: the dimension check
SearchCall(t, query, k) ==
    /\ threads[t].at = "idle"
    /\ IF query.dim # dimension
       THEN /\ ret' = [op |-> "search", thread |-> t, ok |-> FALSE]
            /\ UNCHANGED threads
       ELSE /\ threads' = Moved(t, [at |-> "search_hnsw", op |-> "search",
                                    query |-> query, k |-> k])
            /\ UNCHANGED ret
    /\ UNCHANGED <<root, files, index, writer, vectors, hnsw, vectorsJson, dimension,
                   resolver, model, cache, indexes, existing>>

\* search, line 129: self.hnsw.read()
SearchHnswLocked(t) ==
    /\ threads[t].at = "search_hnsw"
    /\ CanReadHnsw
    /\ threads' = Moved(t, [threads[t] EXCEPT !.at = "search_vectors"])
    /\ UNCHANGED <<root, files, index, writer, vectors, hnsw, vectorsJson, dimension,
                   resolver, ret, model, cache, indexes, existing>>

\* search, lines 130-147: self.vectors.read() with the graph still locked,
\* the neighbours, both guards are dropped
SearchVectorsLocked(t) ==
    /\ threads[t].at = "search_vectors"
    /\ CanReadVectors
    /\ \E nb \in Neighbours(hnsw, threads[t].query, threads[t].k) :
          ret' = [op |-> "search", thread |-> t, ok |-> TRUE,
                  results |-> search(vectors, nb, threads[t].query)]
    /\ threads' = Moved(t, ThreadIdle)
    /\ UNCHANGED <<root, files, index, writer, vectors, hnsw, vectorsJson, dimension,
                   resolver, model, cache, indexes, existing>>

\* clear()
ClearCall(t) ==
    /\ threads[t].at = "idle"
    /\ threads' = Moved(t, [at |-> "clear_hnsw", op |-> "clear"])
    /\ UNCHANGED <<root, files, index, writer, vectors, hnsw, vectorsJson, dimension,
                   resolver, ret, model, cache, indexes, existing>>

\* clear, lines 185-186: self.hnsw.write(), a new graph
ClearHnswLocked(t) ==
    /\ threads[t].at = "clear_hnsw"
    /\ CanWriteHnsw
    /\ hnsw' = {}
    /\ threads' = Moved(t, [threads[t] EXCEPT !.at = "clear_vectors"])
    /\ UNCHANGED <<root, files, index, writer, vectors, vectorsJson, dimension,
                   resolver, ret, model, cache, indexes, existing>>

\* clear, line 187: self.vectors.write().clear() with the graph still locked,
\* both guards are dropped
ClearVectorsLocked(t) ==
    /\ threads[t].at = "clear_vectors"
    /\ CanWriteVectors
    /\ vectors' = << >>
    /\ ret' = [op |-> "clear", thread |-> t, ok |-> TRUE]
    /\ threads' = Moved(t, ThreadIdle)
    /\ UNCHANGED <<root, files, index, writer, hnsw, vectorsJson, dimension,
                   resolver, model, cache, indexes, existing>>

\* the threads inside a call of the vector index, and those of them whose
\* next lock is free
InVectorCall ==
    {t \in Threads : threads[t].at \in {"insert_vectors", "insert_hnsw", "search_hnsw",
                                        "search_vectors", "clear_hnsw", "clear_vectors"}}

CanProceed(t) ==
    CASE threads[t].at = "insert_vectors" -> CanWriteVectors
      [] threads[t].at = "insert_hnsw" -> CanWriteHnsw
      [] threads[t].at = "search_hnsw" -> CanReadHnsw
      [] threads[t].at = "search_vectors" -> CanReadVectors
      [] threads[t].at = "clear_hnsw" -> CanWriteHnsw
      [] threads[t].at = "clear_vectors" -> CanWriteVectors
      [] OTHER -> TRUE

\* ------------------------------------------------------------------------
\* ygrep-cli commands/indexes.rs: remove(identifier), with the directories
\* around the indexes directory. In this part `existing` holds every
\* directory that exists apart from the index directories: the workspaces,
\* <data_dir>/ygrep and <data_dir>/ygrep/indexes.

DataDir == <<"/", "d">>
YgrepDir == DataDir \o <<"/", "y", "g", "r", "e", "p">>

\* get_indexes_dir
IndexesDir == YgrepDir \o <<"/", "i", "n", "d", "e", "x", "e", "s">>

\* PathBuf::join: an absolute path replaces the base
PathBuf_join(base, path) ==
    IF path # << >> /\ path[1] = "/" THEN path ELSE PathJoin(base, path)

\* the directory an absolute path leads to: "." stays, ".." goes up
RECURSIVE Follow(_, _)
Follow(comps, at) ==
    IF comps = << >> THEN at
    ELSE IF Head(comps) = <<".">> THEN Follow(Tail(comps), at)
    ELSE IF Head(comps) = <<".", ".">>
    THEN Follow(Tail(comps), IF at = << >> THEN at ELSE SubSeq(at, 1, Len(at) - 1))
    ELSE Follow(Tail(comps), Append(at, Head(comps)))

Denoted(path) == Follow(Components(path), << >>)

\* directory d is t or lies below t
Below(t, d) == Len(t) <= Len(d) /\ SubSeq(d, 1, Len(t)) = t

\* the directories that exist, with those above them
IndexDirs ==
    IF IndexesDir \in existing
    THEN {Append(Denoted(IndexesDir), h) : h \in DOMAIN indexes} ELSE {}

DirsNow ==
    LET named == {Denoted(d) : d \in existing} \cup IndexDirs
    IN UNION {{SubSeq(d, 1, n) : n \in 0..Len(d)} : d \in named}

\* fs::canonicalize(identifier) of a process whose current directory is cwd
CanonicalizeIn(cwd, identifier) ==
    IF identifier = << >> THEN << >>
    ELSE LET t == Denoted(PathBuf_join(cwd, identifier))
         IN IF t \in DirsNow THEN <<t>> ELSE << >>

\* remove, lines 190-194: does the index of this workspace match
remove_matches(workspace, target_path, identifier) ==
    IF workspace = << >> THEN FALSE
    ELSE IF target_path # << >> THEN Components(workspace[1]) = target_path[1]
    ELSE Contains(workspace[1], identifier)

\* remove(identifier): first the identifier as a name under the indexes
\* directory, then as the path of a workspace; read_dir gives the index
\* directories in `order`. remove_dir_all empties the directory it is given
\* and removes it; the last step (rmdir) fails for a path that ends in "." or "..".
Remove(identifier, cwd, order) ==
    /\ Denoted(cwd) \in DirsNow
    /\ LET index_path == PathBuf_join(IndexesDir, identifier)
           first_try == Denoted(index_path) \in DirsNow
           target_path == CanonicalizeIn(cwd, identifier)
           hits == {i \in 1..Len(order) :
                       remove_matches(read_index_info(indexes[order[i]]),
                                      target_path, identifier)}
           found == CHOOSE i \in hits : \A j \in hits : i <= j
           given == IF IndexesDir \notin existing THEN {}
                    ELSE IF first_try THEN {Denoted(index_path)}
                    ELSE IF hits # {} THEN {Append(Denoted(IndexesDir), order[found])}
                    ELSE {}
           keeps_itself ==
               /\ first_try
               /\ Components(identifier) # << >>
               /\ Components(identifier)[Len(Components(identifier))]
                      \in {<<".">>, <<".", ".">>}
           gone(d) == \E t \in given : Below(t, d) /\ ~(keeps_itself /\ d = t)
       IN /\ existing' = {d \in existing : ~gone(Denoted(d))}
          /\ indexes' = [h \in {k \in DOMAIN indexes :
                                   ~gone(Append(Denoted(IndexesDir), k))} |-> indexes[h]]
          /\ index' = IF gone(Append(Denoted(IndexesDir), hash_path(root)))
                      THEN EmptyBag ELSE index
          /\ vectorsJson' = IF gone(Append(Denoted(IndexesDir), hash_path(root)))
                            THEN << >> ELSE vectorsJson
          /\ files' = IF gone(Denoted(root)) THEN << >> ELSE files
          /\ ret' = [op |-> "remove", identifier |-> identifier,
                     res |-> IF given # {} /\ keeps_itself THEN "Err" ELSE "Ok",
                     given |-> given,
                     lost |-> {d \in DirsNow : gone(d)},
                     inside |-> {Append(Denoted(IndexesDir), h) : h \in DOMAIN indexes}]
    /\ UNCHANGED <<root, writer, vectors, hnsw, dimension, resolver,
                   model, cache, threads>>

\* a workspace at ws is opened and indexed by another run: create_dir_all
\* makes its index directory with those above it (lib.rs 62-64), the pass
\* writes workspace.json (lib.rs 215-224)
OpenAndIndex(ws) ==
    /\ ws \in existing
    /\ existing' = existing \cup {YgrepDir, IndexesDir}
    /\ indexes' = [h \in (IF IndexesDir \in existing THEN DOMAIN indexes ELSE {})
                             \cup {hash_path(ws)} |->
                       IF h = hash_path(ws) THEN WorkspaceJson(ws) ELSE indexes[h]]
    /\ ret' = Idle
    /\ UNCHANGED <<root, files, index, writer, vectors, hnsw, vectorsJson, dimension,
                   resolver, model, cache, threads>>

\* the identifiers given to remove: the hashes, nothing, the parent, here,
\* the path of a workspace, a piece of such a path, a name of nothing
RemoveIdentifiers ==
    {hash_path(RootPlain), hash_path(RootHidden), << >>, <<".", ".">>, <<".">>,
     RootPlain, <<"w">>, <<"z">>}

\* the workspaces of this part, and the directories remove is run in
RemoveRoots == {RootPlain, RootHidden}
RemoveCwds == {<<"/">>, RootPlain}

\* the workspace at / w was opened and indexed
InitRemove ==
    /\ root = RootPlain
    /\ model = [guard |-> << >>, writer |-> 0, loads |-> 0]
    /\ cache = << >>
    /\ indexes = [h \in {hash_path(root)} |-> WorkspaceJson(root)]
    /\ existing = {root, YgrepDir, IndexesDir}
    /\ threads = [t \in Threads |-> ThreadIdle]
    /\ files = << >>
    /\ index = EmptyBag
    /\ writer = << >>
    /\ vectors = << >>
    /\ hnsw = {}
    /\ vectorsJson = << >>
    /\ dimension = EMBEDDING_DIM
    /\ resolver = SymlinkResolver_new(TRUE)
    /\ ret = [op |-> "open"]

\* ------------------------------------------------------------------------
\* a workspace that was never opened: no index directory, nothing indexed
InitNeverOpened ==
    /\ root = RootPlain
    /\ model = [guard |-> << >>, writer |-> 0, loads |-> 0]
    /\ cache = << >>
    /\ indexes = << >>
    /\ existing = {root}
    /\ threads = [t \in Threads |-> ThreadIdle]
    /\ files = << >>
    /\ index = EmptyBag
    /\ writer = << >>
    /\ vectors = << >>
    /\ hnsw = {}
    /\ vectorsJson = << >>
    /\ dimension = EMBEDDING_DIM
    /\ resolver = SymlinkResolver_new(TRUE)
    /\ ret = [op |-> "none"]

\* ------------------------------------------------------------------------
\* Specifications
\* ------------------------------------------------------------------------

\* the workspace: the file tree changes, full and incremental index passes
Next ==
    \/ \E w \in Writes : WriteFile(w[1], w[2])
    \/ \E rel \in RelPaths : RemoveFile(rel)
    \/ Open
    \/ \E order \in Orders(DOMAIN files), batch_ok \in [1..1 -> BOOLEAN] :
            IndexAll(FALSE, order, batch_ok)
    \/ \E rel \in RelPaths : WsIndexFile(rel)
    \/ \E rel \in RelPaths : WsDeleteFile(rel)

Spec == Init /\ [][Next]_vars

InitPlain == Init /\ root = RootPlain

\* the Indexer used directly: index_file calls and commits in any sequence
NextIndexer ==
    \/ \E w \in Writes : WriteFile(w[1], w[2])
    \/ IndexerNew
    \/ \E rel \in RelPaths : IndexerIndexFile(rel)
    \/ IndexerCommit
    \/ IndexerDrop
    \/ \E rel \in RelPaths : WsIndexFile(rel)

SpecIndexer == InitPlain /\ [][NextIndexer]_vars

\* the vector index over full passes and re-opens
NextVectors ==
    \/ \E w \in WritesLong : WriteFile(w[1], w[2])
    \/ \E rel \in {PathA, PathB} : RemoveFile(rel)
    \/ Open
    \/ \E with_embeddings \in BOOLEAN, order \in Orders(DOMAIN files),
          batch_ok \in [1..1 -> BOOLEAN] :
            IndexAll(with_embeddings, order, batch_ok)

SpecVectors == InitPlain /\ [][NextVectors]_vars

\* the vector index next to incremental updates: full passes with embeddings,
\* then Workspace::index_file and Workspace::delete_file on changed files
NextIncremental ==
    \/ \E w \in WritesLong : WriteFile(w[1], w[2])
    \/ \E order \in Orders(DOMAIN files), batch_ok \in [1..1 -> BOOLEAN] :
            IndexAll(TRUE, order, batch_ok)
    \/ \E rel \in {PathA, PathB} : WsIndexFile(rel)
    \/ \E rel \in {PathA, PathB} : WsDeleteFile(rel)

SpecIncremental == InitPlain /\ [][NextIncremental]_vars

\* the VectorIndex used directly: inserts, searches, clear, save and load
NextVectorIndex ==
    \/ \E dim \in Dimensions : VecNew(dim)
    \/ VecLoad
    \/ \E i \in Inserts : VecInsert(i.doc_id, i.embedding)
    \/ VecClear
    \/ VecSave
    \/ \E query \in QueryEmbeddings, k \in 1..MaxVectors : VecSearch(query, k)

SpecVectorIndex == InitVectorIndex /\ [][NextVectorIndex]_vars

\* the SymlinkResolver used directly on a tree with links
NextResolver ==
    \/ \E follow_symlinks \in BOOLEAN : ResolverNew(follow_symlinks)
    \/ \E path \in ResolverPaths : ResolvePath(path)
    \/ \E canonical \in ResolverTree.files : MarkVisited(canonical)
    \/ ResolverReset

SpecResolver == InitResolver /\ [][NextResolver]_vars

\* walks of trees with links
NextWalk ==
    \/ FileWalkerNew
    \/ \E order \in Orders(DOMAIN files \cup DOMAIN ret.links) : Walk(order)

SpecWalk == InitWalk /\ [][NextWalk]_vars

\* the chunker on files of every length under every configuration
NextChunker == IndexChunks

SpecChunker == InitChunker /\ [][NextChunker]_vars

\* text searches on an indexed workspace
NextSearch ==
    \/ \E w \in WritesSearch : WriteFile(w[1], w[2])
    \/ \E order \in Orders(DOMAIN files), batch_ok \in [1..1 -> BOOLEAN] :
            IndexAll(FALSE, order, batch_ok)
    \/ \E query \in Queries, limit \in Limits : Search(query, limit)

SpecSearch == InitPlain /\ [][NextSearch]_vars

\* the limits asked of a hybrid search: none, and one above max_limit
HybridLimits == {NoLimit, MaxRequest}

\* the file trees a workspace is opened on for hybrid searches
FileTrees ==
    {[p \in {w[1] : w \in ws} |-> (CHOOSE w \in ws : w[1] = p)[2]] :
        ws \in {ws \in SUBSET WritesSearch : \A v, w \in ws : v[1] = w[1] => v = w}}

InitHybrid ==
    /\ root = RootPlain
    /\ InitOthers
    /\ files \in FileTrees
    /\ index = EmptyBag
    /\ writer = << >>
    /\ vectors = << >>
    /\ hnsw = {}
    /\ vectorsJson = << >>
    /\ dimension = EMBEDDING_DIM
    /\ resolver = SymlinkResolver_new(TRUE)
    /\ ret = [op |-> "open"]

\* hybrid searches on a workspace indexed with or without embeddings
NextHybrid ==
    \/ \E with_embeddings \in BOOLEAN, order \in Orders(DOMAIN files),
          batch_ok \in [1..1 -> BOOLEAN] :
            IndexAll(with_embeddings, order, batch_ok)
    \/ \E query \in {QueryFoo, QueryBar}, limit \in HybridLimits, embed_ok \in BOOLEAN :
            SearchHybrid(query, limit, embed_ok)

SpecHybrid == InitHybrid /\ [][NextHybrid]_vars

\* the documents Indexer::index_file makes of a file: the whole-file one and
\* its chunks
DocsOf(fs, ws_root, rel) ==
    BagToSet(index_file(EmptyBag, fs, ws_root, PathJoin(ws_root, rel)).docs)

\* the longest ranked list given to reciprocal_rank_fusion on its own
MaxListLen == 2

\* documents ranked lists are made of: two files of the same contents (one
\* doc_id), a third file and its first chunk
RrfWholeDocs ==
    {d \in DocsOf([p \in {PathA} |-> ContentFoo], RootPlain, PathA)
          \cup DocsOf([p \in {PathB} |-> ContentFoo], RootPlain, PathB)
          \cup DocsOf([p \in {PathB} |-> ContentFive], RootPlain, PathB) :
        d.chunk_id = <<>>}

RrfChunkDocs ==
    {d \in DocsOf([p \in {PathB} |-> ContentFive], RootPlain, PathB) : d.line_start = 1}
        \ RrfWholeDocs

\* the ranked lists of at most MaxListLen of the documents, ranks from 1
RankedLists(docs) ==
    UNION {{[i \in 1..n |-> RankedResult(q[i], q[i].doc_id, i)] : q \in [1..n -> docs]} :
              n \in 0..MaxListLen}

\* the two lists and the weights reciprocal_rank_fusion is called with
InitRRF ==
    /\ root = RootPlain
    /\ InitOthers
    /\ files = << >>
    /\ index = EmptyBag
    /\ writer = << >>
    /\ vectors = << >>
    /\ hnsw = {}
    /\ vectorsJson = << >>
    /\ dimension = EMBEDDING_DIM
    /\ resolver = SymlinkResolver_new(TRUE)
    /\ \E bm25_results \in RankedLists(RrfWholeDocs \cup RrfChunkDocs),
          vector_results \in RankedLists(RrfWholeDocs),
          bm25_weight \in Weights, vector_weight \in Weights :
            ret = [op |-> "rrf_input", bm25_results |-> bm25_results,
                   vector_results |-> vector_results,
                   bm25_weight |-> bm25_weight, vector_weight |-> vector_weight]

\* HybridSearcher::reciprocal_rank_fusion on the lists and weights
Fuse ==
    /\ ret.op = "rrf_input"
    /\ \E fused \in reciprocal_rank_fusion(ret.bm25_results, ret.vector_results,
                                            ret.bm25_weight, ret.vector_weight) :
          ret' = [ret EXCEPT !.op = "rrf"] @@ [fused |-> fused]
    /\ UNCHANGED <<others, root, files, index, writer, vectors, hnsw, vectorsJson, dimension, resolver>>

NextRRF == Fuse

SpecRRF == InitRRF /\ [][NextRRF]_vars

\* the watcher: batches of debounced events on a tree that changes
NextWatcher ==
    \/ \E events \in Batches : Debounced(events)
    \/ DebounceError
    \/ WatchedWrite(PathA, ContentFoo)
    \/ WatchedRemove(PathA)

SpecWatcher == InitWatcher /\ [][NextWatcher]_vars

\* the search command on a workspace indexed with or without embeddings
NextCli ==
    \/ \E w \in WritesCli : WriteFile(w[1], w[2])
    \/ \E with_embeddings \in BOOLEAN, order \in Orders(DOMAIN files),
          batch_ok \in [1..1 -> BOOLEAN] :
            IndexAll(with_embeddings, order, batch_ok)
    \/ \E query \in {QueryFoo, QueryBar}, limit \in {1, MaxRequest}, text_only \in BOOLEAN,
          f \in CliFilters, embed_ok \in BOOLEAN :
            CliSearch(query, limit, text_only, f.extensions, f.paths, embed_ok)

SpecCli == InitPlain /\ [][NextCli]_vars

\* concurrent embed / embed_batch calls on one model
NextModel ==
    \E t \in Threads :
        \/ EmbedCall(t)
        \/ \E texts_is_empty \in BOOLEAN : EmbedBatch(t, texts_is_empty)
        \/ FastPath(t)
        \/ WriteLock(t)
        \/ DoubleCheck(t)
        \/ \E ok \in BOOLEAN : TryNew(t, ok)
        \/ EmbedReturn(t)

SpecModel == InitPlain /\ [][NextModel]_vars

\* full index passes of several threads on one workspace
NextPasses ==
    \/ \E w \in WritesCli : WriteFile(w[1], w[2])
    \/ \E t \in Threads :
        \/ \E with_embeddings \in BOOLEAN : PassBegin(t, with_embeddings)
        \/ PassIndexerNew(t)
        \/ \E order \in Orders(DOMAIN files) : PassPhase1(t, order)
        \/ \E batch_ok \in [1..1 -> BOOLEAN] : PassEmbed(t, batch_ok)
        \/ PassSave(t)
        \/ PassReturn(t)

SpecPasses == InitPlain /\ [][NextPasses]_vars

\* the calls on one embedding cache, get_or_insert from several threads
NextCache ==
    \/ \E text \in CacheTexts : CacheGet(text)
    \/ \E text \in CacheTexts : \E embedding \in CacheValues(text) :
            CacheInsert(text, embedding)
    \/ \E t \in CacheCallers, text \in CacheTexts : GetOrInsert(t, text)
    \/ \E t \in CacheCallers, embedding \in UNION {CacheValues(text) : text \in CacheTexts} :
            GetOrInsertComputed(t, embedding)
    \/ CacheClear

SpecCache == InitPlain /\ [][NextCache]_vars

\* the registry of indexes: workspaces come and go, clean is run
NextRegistry ==
    \/ \E ws \in Roots, fully \in BOOLEAN : OpenElsewhere(ws, fully)
    \/ \E h \in DOMAIN indexes, file \in {BrokenJson, JsonWithoutWorkspace} :
            DamageJson(h, file)
    \/ \E ws \in Roots : RemoveWorkspace(ws)
    \/ \E ws \in Roots : MakeWorkspace(ws)
    \/ \E order \in Orders(DOMAIN indexes), fail \in DOMAIN indexes \cup {NoFailure} :
            Clean(order, fail)

SpecRegistry == InitPlain /\ [][NextRegistry]_vars

\* filtered searches on an indexed workspace
NextFiltered ==
    \/ \E w \in WritesFiltered : WriteFile(w[1], w[2])
    \/ \E order \in Orders(DOMAIN files), batch_ok \in [1..1 -> BOOLEAN] :
            IndexAll(FALSE, order, batch_ok)
    \/ \E limit \in 1..MaxLimit, f \in CliFilters :
            SearchFiltered(QueryFoo, limit, f.extensions, f.paths)

SpecFiltered == InitPlain /\ [][NextFiltered]_vars

\* glob_match on a pattern and a path
NextGlob == GlobMatch

SpecGlob == InitGlob /\ [][NextGlob]_vars

\* concurrent calls on one vector index
NextLocks ==
    \E t \in Threads :
        \/ \E doc_id \in {<<"d", "1">>}, embedding \in {LockedEmbedding, [dim |-> TestDim, at |-> 1]} :
                InsertCall(t, doc_id, embedding)
        \/ InsertVectorsLocked(t)
        \/ InsertHnswLocked(t)
        \/ \E query \in {LockedEmbedding, [dim |-> TestDim, at |-> 1]} : SearchCall(t, query, 1)
        \/ SearchHnswLocked(t)
        \/ SearchVectorsLocked(t)
        \/ ClearCall(t)
        \/ ClearHnswLocked(t)
        \/ ClearVectorsLocked(t)

SpecLocks == InitPlain /\ [][NextLocks]_vars

\* indexes are removed by identifier while workspaces come and are indexed
NextRemove ==
    \/ \E ws \in RemoveRoots : MakeWorkspace(ws)
    \/ \E ws \in RemoveRoots : OpenAndIndex(ws)
    \/ \E h \in DOMAIN indexes, file \in {BrokenJson} : DamageJson(h, file)
    \/ \E identifier \in RemoveIdentifiers, cwd \in RemoveCwds,
          order \in Orders(DOMAIN indexes) :
            Remove(identifier, cwd, order)

SpecRemove == InitRemove /\ [][NextRemove]_vars

\* the search command with filters on a workspace indexed with or without
\* embeddings
NextCliFilters ==
    \/ \E w \in WritesCli : WriteFile(w[1], w[2])
    \/ \E with_embeddings \in BOOLEAN, order \in Orders(DOMAIN files),
          batch_ok \in [1..1 -> {TRUE}] :
            IndexAll(with_embeddings, order, batch_ok)
    \/ \E query \in {QueryFoo, QueryBar}, text_only \in BOOLEAN, f \in CliFilters :
            CliSearchWithFilters(query, MaxRequest, text_only, f, TRUE)

SpecCliFilters == InitPlain /\ [][NextCliFilters]_vars

\* full passes over a tree whose files are written and removed between them
NextRepass ==
    \/ \E w \in Writes : WriteFile(w[1], w[2])
    \/ \E rel \in RelPaths : RemoveFile(rel)
    \/ \E order \in Orders(DOMAIN files), batch_ok \in [1..1 -> {TRUE}] :
            IndexAll(FALSE, order, batch_ok)

SpecRepass == InitPlain /\ [][NextRepass]_vars

\* searches and full passes on a workspace that starts out never opened
NextFirstSearch ==
    \/ \E w \in WritesCli : WriteFile(w[1], w[2])
    \/ \E order \in Orders(DOMAIN files), batch_ok \in [1..1 -> {TRUE}] :
            IndexAll(FALSE, order, batch_ok)
    \/ \E query \in {QueryFoo, QueryBar}, text_only \in BOOLEAN, f \in CliFilters :
            CliSearchWithFilters(query, MaxRequest, text_only, f, TRUE)

SpecFirstSearch == InitNeverOpened /\ [][NextFirstSearch]_vars

\* ------------------------------------------------------------------------
\* Properties
\* ------------------------------------------------------------------------

\* the whole-file documents (empty chunk_id) of a path among `docs`, each
\* copy counted
WholeDocs(docs, rel) ==
    {c \in Copies(docs) : c[1].path = rel /\ c[1].chunk_id = <<>>}

\* what makes a file of the workspace one to index, taken on its path
\* below the root: text, within max_file_size, not hidden, under no pruned
\* directory, matching no ignore pattern
Eligible(fs, rel) ==
    LET cs == Components(rel)
    IN /\ rel \in DOMAIN fs
       /\ ReadOk(fs, rel)
       /\ is_text_file(rel, fs[rel])
       /\ Len(fs[rel]) <= MaxFileSize
       /\ \A i \in 1..Len(cs) : ~is_hidden(cs[i])
       /\ \A i \in 1..(Len(cs) - 1) : cs[i] \notin PrunedDirNames
       /\ \A pattern \in IgnorePatterns : ~glob_match(pattern, rel)

\* C1: after index_all completes, every eligible file of the workspace has
\* exactly one whole-file document with its root-relative path and the
\* 16-hex xxh3 hash of its contents as doc_id, whatever the root directory
C1_IndexAllCoversEveryFile ==
    ret.op = "index_all" =>
        \A rel \in DOMAIN files :
            Eligible(files, rel) =>
                /\ Cardinality(WholeDocs(index, rel)) = 1
                /\ \A c \in WholeDocs(index, rel) :
                       c[1].doc_id = Hex16(xxh3_64(files[rel]))

\* C2: in every committed snapshot of the inverted index there is at most
\* one whole-file document per workspace-relative path
C2_OneWholeDocPerPath ==
    \A rel \in RelPaths : Cardinality(WholeDocs(index, rel)) <= 1

\* a path indexed before is re-indexed with changed content and committed
C2_Witness ==
    /\ ret.op = "index_file"
    /\ ret.replaced # {}
    /\ \E c \in WholeDocs(index, ret.path) : c[1].doc_id \notin ret.replaced

\* C3: after delete_file(p) returns Ok, no committed document, whole-file or
\* chunk, has path p
C3_DeleteFileRemovesDocs ==
    (ret.op = "delete_file" /\ ret.res = "Ok") =>
        \A d \in BagToSet(index) : d.path # ret.path

\* a path indexed before was deleted by path and is now re-indexed with new
\* contents, which are text and within max_file_size
Reindexed ==
    /\ ret.op = "index_file"
    /\ ret.res = "Ok"
    /\ ret.after_delete
    /\ ret.replaced # {}
    /\ Eligible(files, ret.path)
    /\ Hex16(xxh3_64(files[ret.path])) \notin ret.replaced

C5_HitsContainQueryLiterally ==
    ret.op = "search" =>
        /\ \A i \in 1..Len(ret.from) :
               Contains(ToLower(ret.from[i].content), ToLower(ret.query))
        /\ (\A d \in BagToSet(index) :
               ~Contains(ToLower(d.content), ToLower(ret.query)))
             => ret.hits = << >>

\* a search for the regex-looking query on an index whose documents hold the
\* word foo returns nothing
C5_Witness ==
    /\ ret.op = "search"
    /\ ret.query = QueryRegex
    /\ ret.hits = << >>
    /\ \E d \in BagToSet(index) : Contains(ToLower(d.content), QueryFoo)

\* C6: in a hybrid search on a workspace with both indices populated, every
\* hit's snippet contains the query as a literal case-insensitive substring
C6_HybridSnippetsContainQuery ==
    (ret.op = "search_hybrid" /\ index # EmptyBag /\ vectors # << >>) =>
        \A i \in 1..Len(ret.hits) :
            Contains(ToLower(ret.hits[i].snippet), ToLower(ret.query))

\* the sum of weight / (60 + r) over the results of a list, from the i-th on,
\* that carry doc_id
RECURSIVE RrfSum(_, _, _, _)
RrfSum(results, i, doc_id, weight) ==
    IF i > Len(results) THEN FracZero
    ELSE LET rest == RrfSum(results, i + 1, doc_id, weight)
         IN IF results[i].doc_id = doc_id
            THEN FracAdd(Frac(weight, 60 + results[i].rank), rest)
            ELSE rest

\* C7: the fused score of every hit is the sum of w / (60 + r) over each
\* result of its doc_id in the BM25 list and in the vector list, also when
\* two results of one list carry the same doc_id
C7_FusedScoreIsSumOverResults ==
    ret.op = "search_hybrid" =>
        \A i \in 1..Len(ret.hits) :
            FracEq(ret.hits[i].score,
                   FracAdd(RrfSum(ret.bm25_results, 1, ret.hits[i].doc_id, Bm25Weight),
                           RrfSum(ret.vector_results, 1, ret.hits[i].doc_id,
                                  VectorWeight)))

\* the doc_ids of the two lists a hybrid search fused
FusedIds ==
    {ret.bm25_results[i].doc_id : i \in 1..Len(ret.bm25_results)}
        \cup {ret.vector_results[i].doc_id : i \in 1..Len(ret.vector_results)}

\* C8: the hits of a hybrid search are in non-increasing order of fused
\* total and are the first L = min(requested or default_limit, max_limit) of
\* the fused documents, none dropped for a total below min_score
C8_HybridOrderedAndLimited ==
    ret.op = "search_hybrid" =>
        /\ \A i \in 1..(Len(ret.hits) - 1) :
               FracLeq(ret.hits[i + 1].score, ret.hits[i].score)
        /\ Len(ret.hits) =
               Min(Cardinality(FusedIds),
                   Min(IF ret.limit = NoLimit THEN DefaultLimit ELSE ret.limit, MaxLimit))
        /\ \A i \in 1..Len(ret.hits), id \in FusedIds :
               (\A j \in 1..Len(ret.hits) : ret.hits[j].doc_id # id) =>
                   FracLeq(FracAdd(EntryScore(ret.bm25_results, id, Bm25Weight),
                                   EntryScore(ret.vector_results, id, VectorWeight)),
                           ret.hits[i].score)

\* a hybrid search asked for more than max_limit returns max_limit hits of
\* more fused documents, all with totals below min_score, the first above
\* the second
C8_Witness ==
    /\ ret.op = "search_hybrid"
    /\ ret.limit = MaxRequest
    /\ Len(ret.hits) = MaxLimit
    /\ Cardinality(FusedIds) > MaxLimit
    /\ \A i \in 1..Len(ret.hits) : ~FracLeq(MinScore, ret.hits[i].score)
    /\ ~FracLeq(ret.hits[1].score, ret.hits[2].score)

\* the doc_ids of a list of results or hits, in order
IdsOf(q) == [i \in 1..Len(q) |-> q[i].doc_id]

\* both lists given to the fusion are the same ordered list of distinct
\* doc_ids and the weights are equal
SameListsEqualWeights ==
    /\ ret.op = "rrf"
    /\ IdsOf(ret.bm25_results) = IdsOf(ret.vector_results)
    /\ \A i, j \in 1..Len(ret.bm25_results) :
           ret.bm25_results[i].doc_id = ret.bm25_results[j].doc_id => i = j
    /\ ret.bm25_weight = ret.vector_weight

\* C9 as stated: with the same ordered list of distinct doc_ids on both
\* sides and equal weights, the fused order equals the input order
C9_SameListsKeepOrder ==
    SameListsEqualWeights => IdsOf(ret.fused) = IdsOf(ret.bm25_results)

\* C9, amended: with the same ordered list of distinct doc_ids on both sides
\* and equal weights above zero, the fused order equals the input order
C9_SameListsKeepOrderPositiveWeights ==
    (SameListsEqualWeights /\ ret.bm25_weight > 0) =>
        IdsOf(ret.fused) = IdsOf(ret.bm25_results)

\* two documents in the same order on both sides, fused with equal weights
\* above zero
C9_Witness ==
    /\ SameListsEqualWeights
    /\ ret.bm25_weight > 0
    /\ Len(ret.bm25_results) >= 2
    /\ Len(ret.fused) >= 2

\* the vectors Workspace::open would load: those of vectors.json if the file
\* exists
Persisted == IF vectorsJson # << >> THEN vectorsJson[1].vectors ELSE << >>

\* the doc_ids of the files a full pass walked, if the pass embeds
PassIds ==
    IF ret.with_embeddings
    THEN {Hex16(xxh3_64(files[StripPrefix(ret.entries[i], root)])) :
              i \in 1..Len(ret.entries)}
    ELSE {}

\* C10: after a full index pass, with or without embeddings, the vector
\* index holds only vectors inserted during that pass, in memory and as
\* persisted in vectors.json
C10_OnlyVectorsOfThisPass ==
    ret.op = "index_all" =>
        /\ \A i \in 1..Len(vectors) : vectors[i].doc_id \in PassIds
        /\ \A i \in 1..Len(Persisted) :
               /\ Persisted[i].doc_id \in PassIds
               /\ Persisted[i] \in SeqToSet(vectors)

\* the doc_ids (of whole files and of chunks, whose chunk_id is their doc_id)
\* of the documents of the committed index
IndexedIds == {d.doc_id : d \in BagToSet(index)} \cup {d.chunk_id : d \in BagToSet(index)}

\* C11: in every state reached by full index passes with embeddings,
\* Workspace::index_file on changed files and Workspace::delete_file, the
\* doc_id of every stored vector is the doc_id or chunk_id of a document of
\* the committed index
C11_VectorsNameIndexedDocuments ==
    \A i \in 1..Len(vectors) : vectors[i].doc_id \in IndexedIds

\* C12: after k successful inserts into a new or just cleared VectorIndex,
\* len() is k and the i-th insert returned the id i - 1: ids are dense, count
\* from 0, equal the position in the array of stored vectors, and the id
\* under which the graph holds a vector is that position
C12_InsertIdsAreDensePositions ==
    /\ ret.fresh => Len(vectors) = ret.inserted
    /\ (ret.op = "insert" /\ ret.ok) =>
           /\ ret.id = Len(vectors) - 1
           /\ ret.fresh => ret.id = ret.inserted - 1
    /\ hnsw = {[d_id |-> i - 1, vector |-> vectors[i].vector] : i \in 1..Len(vectors)}

C12_Witness ==
    /\ ret.op = "insert" /\ ret.ok /\ ret.fresh
    /\ ret.inserted = 2 /\ ret.id = 1

\* C13: an insert of a vector whose length is not the index's dimension
\* returns an error and leaves the index as it was (same length, same
\* vectors, no id used up); the dimension of an index never changes once
\* the index is made (by new or by load), so every stored vector has the
\* length of the dimension
C13_WrongDimensionInsertIsRejected ==
    /\ [](\A i \in 1..Len(vectors) : vectors[i].vector.dim = dimension)
    /\ [][(ret'.op = "insert" /\ ret'.embedding.dim # dimension) =>
             /\ ~ret'.ok
             /\ vectors' = vectors /\ hnsw' = hnsw /\ vectorsJson' = vectorsJson]_vars
    /\ [][dimension' # dimension => ret'.op \in {"new", "load"}]_vars

C13_Witness ==
    /\ ret.op = "insert" /\ ~ret.ok
    /\ ret.embedding.dim # dimension
    /\ Len(vectors) > 0

\* the sets of doc_ids a k-nearest search on an index may return
SearchIds(vi, query, k) ==
    {{r.results[i].doc_id : i \in 1..Len(r.results)} :
        r \in VectorIndex_search(vi, query, k)}

\* no two stored vectors of different doc_ids are at the same distance from
\* the query
NoDistanceTies(vi, query) ==
    \A i, j \in 1..Len(vi.vectors) :
        Distance(vi.vectors[i].vector, query) = Distance(vi.vectors[j].vector, query)
            => vi.vectors[i].doc_id = vi.vectors[j].doc_id

\* the index in memory is the one that was saved, and every search (of the
\* queries that `ties` lets in) returns the doc_ids it returned before
SameAsSaved(ties) ==
    LET before == ret.saved[1]
    IN /\ dimension = before.dimension
       /\ Len(vectors) = Len(before.vectors)
       /\ \A i \in 1..Len(vectors) : vectors[i] = before.vectors[i]
       /\ \A query \in QueryEmbeddings, k \in 1..MaxVectors :
              (ties \/ NoDistanceTies(before, query)) =>
                  \A a \in SearchIds(before, query, k), b \in SearchIds(VI, query, k) :
                      a = b

Resolvable(path) ==
    \/ path \in ResolverTree.files
    \/ /\ path \in DOMAIN ResolverTree.links
       /\ resolver.follow_symlinks
       /\ canonicalize(ResolverTree, path) # << >>

C16_NoCanonicalResolvedTwice ==
    \A i, j \in 1..Len(ret.log) :
        ret.log[i].canonical = ret.log[j].canonical => i = j

C16_Witness ==
    /\ ret.op = "resolve" /\ ~ret.resolved /\ ~ret.again
    /\ ret.path = AbsTxt
    /\ ret.reason = "CircularSymlink"
    /\ Len(ret.log) = 2
    /\ \E i \in 1..2 : ret.log[i].original = LinkTxt

\* the tree holds target.txt and the link link.txt to it, and links are
\* followed
TargetAndLink ==
    /\ WalkTarget \in DOMAIN files
    /\ WalkLink \in DOMAIN ret.links /\ ret.links[WalkLink] = WalkTarget
    /\ resolver.follow_symlinks

\* the first path of the walk order that leads to the regular file
FirstTo(target) ==
    LET tree == TreeOf(root, files, ret.links)
        leads == {i \in 1..Len(ret.order) :
                     canonicalize(tree, PathJoin(root, ret.order[i]))
                         = <<PathJoin(root, target)>>}
    IN ret.order[CHOOSE i \in leads : \A j \in leads : i <= j]

\* C17: in one walk of a root that holds target.txt and the link link.txt to
\* it, with links followed, exactly one WalkEntry has the canonical path of
\* target.txt, whichever of the two is met first (it is the entry of the
\* first path met that leads to target.txt); the other is skipped
C17_TargetYieldedOnce ==
    (ret.op = "walk" /\ ret.new_walker /\ TargetAndLink) =>
        /\ Cardinality({i \in 1..Len(ret.canonicals) :
                            ret.canonicals[i] = PathJoin(root, WalkTarget)}) = 1
        /\ Cardinality({i \in 1..Len(ret.entries) :
                            ret.entries[i] \in {PathJoin(root, WalkTarget),
                                                  PathJoin(root, WalkLink)}}) <= 1
        /\ \A i \in 1..Len(ret.entries) :
               ret.canonicals[i] = PathJoin(root, WalkTarget)
                   => ret.entries[i] = PathJoin(root, FirstTo(WalkTarget))

C17_Witness ==
    /\ ret.op = "walk" /\ ret.new_walker /\ TargetAndLink
    /\ ret.order[1] = WalkLink
    /\ ret.entries = <<PathJoin(root, WalkLink)>>
    /\ ret.canonicals = <<PathJoin(root, WalkTarget)>>

\* the lines of the i-th chunk, numbered from 1
ChunkRange(i) == ret.chunks[i].line_start .. ret.chunks[i].line_end

\* the chunker ran on a file of more than chunk_size lines with an overlap
\* above zero
Chunked ==
    /\ ret.op = "index_chunks"
    /\ ret.n > ret.chunk_size
    /\ ret.chunk_overlap > 0

\* C18: for a file of N > W lines (W > O > 0) the union of the line ranges
\* of the chunks is exactly [1, N]: every line is in at least one chunk
C18_ChunksCoverEveryLine ==
    Chunked => UNION {ChunkRange(i) : i \in 1..Len(ret.chunks)} = 1..ret.n

C18_Witness ==
    /\ Chunked
    /\ Len(ret.chunks) >= 3
    /\ ret.chunk_overlap >= 2
    /\ \E i \in 1..Len(ret.chunks) :
          Cardinality(ChunkRange(i)) < ret.chunk_size

\* C19: for a file of N > W lines (W > O > 0) every two consecutive chunks
\* share exactly O lines, the last chunk and the one before it included
C19_ConsecutiveChunksShareOverlap ==
    Chunked =>
        \A i \in 1..(Len(ret.chunks) - 1) :
            Cardinality(ChunkRange(i) \cap ChunkRange(i + 1)) = ret.chunk_overlap

\* C20: no chunk for a file of N <= W lines; for N > W exactly the chunks
\* k = 0, 1, ... with k * (W - O) < N, chunk k over the lines k * (W - O) + 1
\* to min(k * (W - O) + W, N); 120 lines with W = 50 and O = 10 give
\* [1..50], [41..90], [81..120]
C20_ChunkRangesAreTheFormula ==
    ret.op = "index_chunks" =>
        LET step == ret.chunk_size - ret.chunk_overlap
            ks == {k \in 0..ret.n : k * step < ret.n}
        IN /\ ret.n <= ret.chunk_size => ret.chunks = << >>
           /\ ret.n > ret.chunk_size =>
                 /\ Len(ret.chunks) = Cardinality(ks)
                 /\ \A k \in ks :
                       /\ ret.chunks[k + 1].line_start = k * step + 1
                       /\ ret.chunks[k + 1].line_end
                              = Min(k * step + ret.chunk_size, ret.n)
           /\ (ret.n = ExampleInput.n /\ ret.chunk_size = ExampleInput.chunk_size
                  /\ ret.chunk_overlap = ExampleInput.chunk_overlap) =>
                 [i \in 1..Len(ret.chunks) |->
                     <<ret.chunks[i].line_start, ret.chunks[i].line_end>>]
                   = << <<1, 50>>, <<41, 90>>, <<81, 120>> >>

C20_Witness ==
    /\ ret.op = "index_chunks"
    /\ ret.n = ExampleInput.n /\ ret.chunk_size = ExampleInput.chunk_size
    /\ Len(ret.chunks) = 3

\* how often the event e is in the sequence of sent events
TimesSent(sent, e) == Cardinality({i \in 1..Len(sent) : sent[i] = e})

\* C21: of the watch events that process_notify_event yields for the events
\* of one batch, every Changed(p) and every Deleted(p) is sent exactly once by
\* the callback, whatever else the batch holds (a Deleted(p) is sent although
\* a Changed(p) was, and the other way round) and whatever the batches before
\* it sent; nothing else is sent
C21_OnePerPathAndKindInABatch ==
    ret.op = "debounced" =>
        /\ \A e \in ret.yielded :
              e.kind \in {"Changed", "Deleted"} => TimesSent(ret.sent, e) = 1
        /\ SeqToSet(ret.sent) = ret.yielded

\* a batch that yielded an event twice and sent it once, sent both
\* Changed(/w/a.rs) and Deleted(/w/a.rs), and sent Changed(/w/a.rs) as the
\* batch before it did
C21_Witness ==
    /\ ret.op = "debounced"
    /\ ret.dropped > 0
    /\ WatchEvent("Changed", WatchedA) \in SeqToSet(ret.sent)
    /\ WatchEvent("Deleted", WatchedA) \in SeqToSet(ret.sent)
    /\ ret.again

\* C22: no Changed, Deleted or DirCreated event is sent for a path outside
\* every watched path, with a hidden component, with a component in the list
\* of directory names FileWalker::walk prunes, or matching an ignore pattern
C22_NoEventForFilteredPath ==
    \A e \in SeqToSet(ret.sent) :
        e.kind \in {"Changed", "Deleted", "DirCreated"} =>
            /\ \E wp \in ret.watched_paths : PathStartsWith(e.path, wp)
            /\ ~watcher_is_hidden(e.path)
            /\ \A name \in PrunedDirNames : ~HasComponent(e.path, name)
            /\ ~matches_ignore_pattern(e.path)

\* C23: the search command runs the hybrid searcher exactly when the vector
\* index of the opened workspace is not empty and text-only is not forced,
\* and the BM25 searcher in every other case
C23_HybridIffVectorsAndNotTextOnly ==
    ret.op = "cli_search" =>
        /\ ret.searcher \in {"hybrid", "bm25"}
        /\ ret.searcher = "hybrid" <=> (vectors # << >> /\ ~ret.text_only)

\* a text-only search on a workspace that has vectors went to the BM25
\* searcher and found a hit
C23_Witness ==
    /\ ret.op = "cli_search"
    /\ vectors # << >>
    /\ ret.text_only
    /\ ret.searcher = "bm25"
    /\ ret.hits # << >>

\* the files of the tree that are larger than max_file_size
TooLarge(fs) == {rel \in DOMAIN fs : Len(fs[rel]) > MaxFileSize}

\* C24: no document of the index holds a content larger than max_file_size;
\* a full pass counts every walked file that is too large in skipped and the
\* other walked files in indexed or errors; Workspace::index_file on a file
\* that is too large returns the error to its caller
C24_TooLargeIsSkippedOrSurfaced ==
    /\ \A d \in BagToSet(index) : d.size <= MaxFileSize
    /\ ret.op = "index_all" =>
          /\ ret.stats.skipped =
                Cardinality({i \in 1..Len(ret.entries) :
                                StripPrefix(ret.entries[i], root) \in TooLarge(files)})
          /\ ret.stats.indexed + ret.stats.errors =
                Cardinality({i \in 1..Len(ret.entries) :
                                StripPrefix(ret.entries[i], root) \notin TooLarge(files)})
    /\ (ret.op = "index_file" /\ ret.path \in TooLarge(files)) => ret.res = "Err"

\* C25: after a full pass indexed + skipped + errors is the number of entries
\* the walk yielded, which is at most unique_paths
C25_CountersSumToWalkedEntries ==
    ret.op = "index_all" =>
        /\ ret.stats.indexed + ret.stats.skipped + ret.stats.errors = Len(ret.entries)
        /\ ret.stats.indexed + ret.stats.skipped + ret.stats.errors
              <= ret.stats.unique_paths

\* a pass over two files, one indexed and one skipped or in error
C25_Witness ==
    /\ ret.op = "index_all"
    /\ ret.stats.indexed = 1
    /\ ret.stats.skipped + ret.stats.errors = 1
    /\ ret.stats.unique_paths = 2

\* C26: a search with a query that holds no alphanumeric character and no
\* underscore (empty, blanks, punctuation) returns no hit, whatever the
\* index holds
C26_NoTermsNoHits ==
    (/\ ret.op = "search"
     /\ \A i \in 1..Len(ret.query) : ~IsAlphanumeric(ret.query[i]) /\ ret.query[i] # "_")
        => ret.hits = << >>

\* a search for a blank on an index with a document that holds a blank
C26_Witness ==
    /\ ret.op = "search"
    /\ ret.query = QuerySpace
    /\ \E d \in BagToSet(index) : Contains(d.content, ret.query)
    /\ ret.hits = << >>

\* the threads that hold a handle of the model
Holders == {t \in Threads : threads[t].got # << >>}

\* C27: under any interleaving of embed / embed_batch calls on one
\* EmbeddingModel at most one load succeeds, at most one thread is past the
\* write lock at a time (the others wait), and every thread that got a handle
\* got the one that is published.
C27_LoadedAtMostOnce ==
    /\ model.loads <= 1
    /\ (model.loads = 0) <=> (model.guard = << >>)
    /\ \A t \in Holders : threads[t].got = model.guard
    /\ \A t \in Threads :
           threads[t].at \in {"locked", "loading"} <=> model.writer = t

\* the model was loaded once and two threads hold the one handle:
\* the thread that loaded it and a thread that waited for the write lock and
\* found the model at the double check
C27_Witness ==
    /\ model.loads = 1
    /\ \E t, u \in Holders :
           /\ threads[t].via = "load"
           /\ threads[u].via = "double_check"
           /\ threads[t].got = threads[u].got

\* C28: when two full index passes on one Workspace overlap, the second
\* neither clears nor inserts into the vector index while the first is in
\* progress: no thread has just cleared the vector index (it stands between
\* vector_index.clear() and Indexer::new) or is embedding while another thread
\* is inside its pass with the indexer.
C28_OnePassMutatesVectors ==
    \A t, u \in Threads :
        (t # u /\ threads[u].at \in HoldsIndexer)
            => threads[t].at \notin {"new_indexer"} \cup HoldsIndexer

\* the part of C28 that the single writer of the index gives: only the thread
\* that holds the indexer inserts vectors or saves them
PassesHoldIndexerAlone ==
    \A t, u \in Threads :
        (t # u /\ threads[u].at \in HoldsIndexer) => threads[t].at \notin HoldsIndexer

\* C29 as stated: after get_or_insert(t, f) returned v, a later
\* get_or_insert(t, g) returns v without invoking g as long as the entry for
\* t was neither evicted nor cleared in between.
C29_SecondCallHitsUnlessEvictedOrCleared ==
    ret.op = "get_or_insert"
        => /\ ret.promised # {} => ret.hit /\ ~ret.computed
           /\ \A v \in ret.promised : ret.value = <<v>>

\* C29, amended: after get_or_insert(t, f) returned v, a later
\* get_or_insert(t, g) returns v without invoking g as long as the entry for
\* t was neither evicted nor cleared nor replaced in between (by insert on
\* the same key, or by a get_or_insert that had missed before v was stored).
C29_SecondCallHitsUnlessReplaced ==
    ret.op = "get_or_insert"
        => /\ ret.promised_kept # {} => ret.hit /\ ~ret.computed
           /\ \A v \in ret.promised_kept : ret.value = <<v>>

\* a get_or_insert hit returns the value that an earlier get_or_insert
\* computed and returned, with the cache full and another key used since
C29_Witness ==
    /\ ret.op = "get_or_insert"
    /\ ret.hit
    /\ ret.promised_kept = {ret.value[1]}
    /\ Len(cache) = CacheCapacity

\* an index directory whose workspace.json is missing or yields no workspace
\* path, or names a path that does not exist
Orphaned(file) ==
    \/ file = << >>
    \/ ~file[1].json
    \/ file[1].workspace = << >>
    \/ file[1].workspace[1] \notin existing

\* C30: a clean that ran to its end removed exactly the index directories
\* whose workspace.json is missing or yields no workspace path or names a
\* path that does not exist; every index whose recorded workspace exists is
\* left as it was, also by a clean that a failing removal ended early.
C30_CleanRemovesExactlyOrphans ==
    ret.op = "clean"
        => /\ ret.res = "Ok"
                  => ret.removed = {h \in DOMAIN ret.before : Orphaned(ret.before[h])}
           /\ DOMAIN indexes = DOMAIN ret.before \ ret.removed
           /\ \A h \in DOMAIN ret.before :
                  ~Orphaned(ret.before[h])
                      => h \in DOMAIN indexes /\ indexes[h] = ret.before[h]

\* a clean removed an index without workspace.json and one whose workspace
\* is gone, and kept one whose workspace exists
C30_Witness ==
    /\ ret.op = "clean"
    /\ ret.res = "Ok"
    /\ \E h \in ret.removed : ret.before[h] = << >>
    /\ \E h \in ret.removed :
           read_index_info(ret.before[h]) # << >>
    /\ DOMAIN indexes # {}

\* C31: a filtered search with limit L (L up to max_limit) collects 2 L
\* literal-matching hits (all of them if the index holds fewer) before the
\* extension and path filters, and returns the first L of them that pass.
C31_FilteredCollectsTwiceTheLimit ==
    (ret.op = "search_filtered" /\ ret.limit # NoLimit /\ ret.limit <= MaxLimit)
        => /\ Len(ret.collected) = Min(2 * ret.limit, ret.matching)
           /\ ret.hits = Take(RetainFiltered(ret.collected, ret.extensions, ret.paths),
                              ret.limit)

\* the part of C31 that the code keeps: the hits are the first L collected
\* hits that pass the filters, and 2 L hits are collected while 2 L is at
\* most max_limit
FilteredWithinMaxLimit ==
    (ret.op = "search_filtered" /\ ret.limit # NoLimit /\ ret.limit <= MaxLimit)
        => /\ 2 * ret.limit <= MaxLimit
                 => Len(ret.collected) = Min(2 * ret.limit, ret.matching)
           /\ Len(ret.collected) = Min(Min(2 * ret.limit, MaxLimit), ret.matching)
           /\ ret.hits = Take(RetainFiltered(ret.collected, ret.extensions, ret.paths),
                              ret.limit)

\* the directory components of a file path: all but the last
IsDirComponent(path, name) ==
    \E i \in 1..(Len(Components(path)) - 1) : Components(path)[i] = name

\* the documented table of glob_match
GlobTable(pattern, path) ==
    LET n == Len(pattern)
    IN IF StartsWith(pattern, <<"*", "*", "/">>) /\ EndsWith(pattern, <<"/", "*", "*">>)
       THEN IsDirComponent(path, SubSeq(pattern, 4, n - 3))
       ELSE IF StartsWith(pattern, <<"*", "*", "/", "*", ".">>)
       THEN EndsWith(path, SubSeq(pattern, 5, n))
       ELSE IF StartsWith(pattern, <<"*", "*", "/">>)
       THEN EndsWith(path, SubSeq(pattern, 4, n))
       ELSE IF EndsWith(pattern, <<"/", "*", "*">>)
       THEN StartsWith(path, SubSeq(pattern, 1, n - 3))
       ELSE IF StartsWith(pattern, <<"*", ".">>)
       THEN EndsWith(path, SubSeq(pattern, 2, n))
       ELSE HasComponent(path, pattern)

\* C32: glob_match(pattern, path) follows the documented table: **/name/**
\* matches iff name is a directory component of the path, **/*.ext and *.ext
\* iff the path ends with .ext, **/suffix iff the path ends with suffix,
\* prefix/** iff the path starts with prefix, any other pattern iff it equals
\* a path component.
C32_GlobMatchFollowsTheTable ==
    ret.op = "glob_match" => (ret.matched <=> GlobTable(ret.pattern, ret.path))

\* the rows of the table that glob_match keeps: the extension patterns and
\* **/suffix, and the example of **/*.log
GlobExtensionAndSuffixRows ==
    (/\ ret.op = "glob_match"
     /\ \/ StartsWith(ret.pattern, <<"*", ".">>)
        \/ (StartsWith(ret.pattern, <<"*", "*", "/">>)
               /\ ~EndsWith(ret.pattern, <<"/", "*", "*">>)))
        => (ret.matched <=> GlobTable(ret.pattern, ret.path))

\* C33: no interleaving of concurrent insert, search and clear calls on one
\* VectorIndex deadlocks: whenever threads are inside such calls, one of them
\* can take its next lock.
C33_NoDeadlock ==
    InVectorCall # {} => \E t \in InVectorCall : CanProceed(t)

\* C34: remove(identifier) deletes nothing outside the indexes directory: for
\* every identifier the only thing it removes is one immediate subdirectory
\* of the indexes directory, and at most one per call.
C34_RemoveStaysInsideIndexes ==
    ret.op = "remove" =>
        /\ Cardinality(ret.given) <= 1
        /\ ret.given \subseteq ret.inside
        /\ \A d \in ret.lost : \E t \in ret.inside : Below(t, d)

\* what remove keeps: an identifier that is one plain name (no separator, not
\* "." or "..", not empty) removes at most one immediate subdirectory of the
\* indexes directory and nothing else
RemoveByPlainNameStaysInside ==
    (/\ ret.op = "remove"
     /\ ret.identifier \notin {<< >>, <<".">>, <<".", ".">>}
     /\ ~Contains(ret.identifier, <<"/">>)) =>
        /\ Cardinality(ret.given) <= 1
        /\ ret.given \subseteq ret.inside
        /\ ret.lost = ret.given

\* the kind of the last event of a batch that names the path, "none" if no
\* event does
LastRawKind(events, path) ==
    LET about == {i \in 1..Len(events) : path \in SeqToSet(events[i].paths)}
    IN IF about = {} THEN "none"
       ELSE events[CHOOSE i \in about : \A j \in about : j <= i].kind

\* the kind of the last watch event sent for the path, "none" if none was
LastSentKind(sent, path) ==
    LET about == {i \in 1..Len(sent) : sent[i].path = path}
    IN IF about = {} THEN "none"
       ELSE sent[CHOOSE i \in about : \A j \in about : j <= i].kind

\* the events of the batch end with /w/a.rs made or modified, and it is a
\* regular file when the callback runs
EndsAsFile(events) ==
    /\ PathA \in DOMAIN files
    /\ LastRawKind(events, WatchedA) \in {"Create", "Modify"}

\* C35: within one batch, if the raw events for a path end with the path
\* existing as a regular file, the last event the callback sends for it is
\* Changed
C35_LastSentIsChanged ==
    [][\A events \in Batches :
          (Debounced(events) /\ EndsAsFile(events)) =>
              LastSentKind(ret'.sent, WatchedA) = "Changed"]_vars

\* what the callback keeps for such a batch: Changed is sent for the path,
\* and it is the last event sent for it unless the batch holds a Remove of
\* the path
ChangedIsSentForAFile ==
    [][\A events \in Batches :
          (Debounced(events) /\ EndsAsFile(events)) =>
              /\ WatchEvent("Changed", WatchedA) \in SeqToSet(ret'.sent)
              /\ (\A i \in 1..Len(events) :
                     events[i].kind = "Remove" => WatchedA \notin SeqToSet(events[i].paths))
                 => LastSentKind(ret'.sent, WatchedA) = "Changed"]_vars

\* the hit satisfies the filters: its extension is one of the listed (when
\* any is), its path starts with or contains a listed piece (when any is)
SatisfiesFilters(hit, extensions, paths) ==
    /\ extensions # {} =>
          /\ Extension(hit.path) # << >>
          /\ \E e \in extensions : EqIgnoreCase(e, Extension(hit.path))
    /\ paths # {} =>
          \E p \in paths : StartsWith(hit.path, p) \/ Contains(hit.path, p)

\* C36: when extension or path filters are given to the search command, every
\* returned hit satisfies them, whether the BM25 searcher or the hybrid
\* searcher runs
C36_EveryHitSatisfiesTheFilters ==
    ret.op = "cli_search" =>
        \A i \in 1..Len(ret.hits) :
            SatisfiesFilters(ret.hits[i], ret.given.extensions, ret.given.paths)

\* what the command keeps: the hits of the BM25 searcher satisfy the filters
Bm25HitsSatisfyTheFilters ==
    (ret.op = "cli_search" /\ ret.searcher = "bm25") =>
        \A i \in 1..Len(ret.hits) :
            SatisfiesFilters(ret.hits[i], ret.given.extensions, ret.given.paths)

\* C37: after a full index pass on an already indexed workspace, every
\* whole-file document of the committed index has a path that the walk of
\* this pass emitted
C37_DocumentsAreOfWalkedFiles ==
    ret.op = "index_all" =>
        \A d \in BagToSet(index) :
            d.chunk_id = << >> => PathJoin(root, d.path) \in SeqToSet(ret.entries)

\* no full pass has completed on the workspace: its index directory is
\* missing or holds no workspace.json
NeverIndexed ==
    \/ hash_path(root) \notin DOMAIN indexes
    \/ read_index_info(indexes[hash_path(root)]) = << >>

\* C38: is_indexed() is false from the opening of a workspace until a full
\* pass has completed on it, so a search command on a workspace without a
\* completed pass runs the pass itself
C38_FirstSearchIndexes ==
    (ret.op = "cli_search" /\ NeverIndexed) => ret.auto_index

\* what the command does: is_indexed() holds right after the opening, no
\* search command runs the pass
SearchNeverIndexes ==
    ret.op = "cli_search" => ~ret.auto_index /\ is_indexed(indexes, root)

\* C39: when Indexer::index_file fails for a path (the file cannot be read,
\* is not valid UTF-8, or is larger than max_file_size), the documents of the
\* writer are after the call exactly what they were before it: none is
\* added, none is deleted
C39_FailedIndexFileChangesNothing ==
    [][\A rel \in RelPaths :
          (IndexerIndexFile(rel) /\ ret'.res # "Ok") => writer' = writer]_vars

\* index_file has failed for a path whose whole-file document, indexed
\* before, is still with the writer
C39_Witness ==
    /\ ret.op = "indexer_index_file"
    /\ ret.res = "FileTooLarge"
    /\ ret.replaced # {}
    /\ WholeIds(writer[1], ret.path) = ret.replaced

\* the same for a file that cannot be read as UTF-8
C39_WitnessIo ==
    /\ ret.op = "indexer_index_file"
    /\ ret.res = "Io"
    /\ ret.replaced # {}
    /\ WholeIds(writer[1], ret.path) = ret.replaced

\* what the link leads to: << >> if the target cannot be canonicalized
LinkTarget(path) ==
    canonicalize(ResolverTree, ResolveTarget(path, ResolverTree.links[path]))

\* C40: for a symlink, resolve answers Skipped(SymlinkNotFollowed) when
\* follow_symlinks is off; otherwise Skipped(BrokenSymlink) when the target
\* cannot be canonicalized, Skipped(CircularSymlink) when the canonical target
\* is already recorded, and otherwise Resolved with is_symlink and the
\* canonical target added to the recorded set; no Skipped answer, for a link
\* or a file, changes the recorded set
C40_ResolveOfASymlink ==
    [][\A path \in ResolverPaths :
          ResolvePath(path) =>
            /\ ~ret'.resolved => resolver' = resolver
            /\ path \in DOMAIN ResolverTree.links =>
                 IF ~resolver.follow_symlinks
                 THEN ~ret'.resolved /\ ret'.reason = "SymlinkNotFollowed"
                 ELSE IF LinkTarget(path) = << >>
                 THEN ~ret'.resolved /\ ret'.reason = "BrokenSymlink"
                 ELSE IF LinkTarget(path)[1] \in resolver.visited_canonical
                 THEN ~ret'.resolved /\ ret'.reason = "CircularSymlink"
                 ELSE /\ ret'.resolved
                      /\ ret'.is_symlink
                      /\ ret'.canonical = LinkTarget(path)[1]
                      /\ resolver' = [resolver EXCEPT !.visited_canonical =
                                          @ \cup {LinkTarget(path)[1]}]]_vars

\* a link through another link was resolved to the file at its end, which is
\* recorded now and was not the first to be recorded
C40_Witness ==
    /\ ret.op = "resolve"
    /\ ret.path = ChainTxt
    /\ ret.resolved /\ ret.is_symlink
    /\ ret.canonical = TargetTxt
    /\ ~ret.first
    /\ TargetTxt \in resolver.visited_canonical

====
